---- MODULE Spec2Model ----
(***************************************************************************)
(* CardForge: the drop engine (InventoryService), the player/wallet        *)
(* service (PlayerService), the admin service (AdminService) and the two   *)
(* player stores (in-memory and relational), as one state machine.         *)
(*                                                                         *)
(* Time is counted in ticks, TicksPerSecond ticks to the second, so that   *)
(* the truncation int(delta.total_seconds()) of the cooldown is visible.   *)
(* Weights are integers in units of 1/WeightUnit.  A value of              *)
(* random.random() is k / RngDen for an integer k in 0 .. RngDen-1.        *)
(***************************************************************************)
EXTENDS Integers, Sequences, FiniteSets, TLC

VARIABLES cfg, now, table, history, audit, published, last, inflight,
          listeners, delivery, catalog, currency_registry, answer, document, errors,
          transport, draw

vars == <<cfg, now, table, history, audit, published, last, inflight,
         listeners, delivery, catalog, currency_registry, answer, document, errors,
         transport, draw>>

\* What the services hold, and what lives beside them and no call of the
\* services touches: the drops that have read their record and not yet
\* returned, and the components taken on their own: an EventBus with its
\* listeners, a CardCatalog and a CurrencyRegistry being filled, a
\* catalog document with the errors the validator found in it, a call
\* of safe_api_call on its way through the messaging transport, and the
\* latest weight or index the drop engine worked out when asked directly.
services == <<cfg, now, table, history, audit, published, last>>

bus == <<listeners, delivery>>

registries == <<catalog, currency_registry, answer>>

validator == <<document, errors>>

standalone == <<bus, registries, validator, transport, draw>>

beside == <<inflight, standalone>>

\* ------------------------------------------------------------------------
\* Bounds of the model
\* ------------------------------------------------------------------------
TicksPerSecond == 2
MaxTime == 2
MaxHistory == 2
MaxAudit == 1
MaxBalance == 1
MaxCount == 2
MaxXp == 1
RngDen == 2
WeightUnit == 10
MaxListeners == 4
MaxFaults == 2
MaxRetained == 1
MaxRetries == 3
MaxWeights == 3

Users == {1}

\* ------------------------------------------------------------------------
\* Dictionaries (dict.get(k, 0), d[k] = v)
\* ------------------------------------------------------------------------
EmptyMap == [x \in {} |-> 0]

Get(m, k) == IF k \in DOMAIN m THEN m[k] ELSE 0

Put(m, k, v) == [x \in (DOMAIN m) \cup {k} |-> IF x = k THEN v ELSE m[x]]

Min2(a, b) == IF a <= b THEN a ELSE b

Max2(a, b) == IF a >= b THEN a ELSE b

\* int(x) of Python for the rational n / d (d > 0): truncation toward zero.
TruncDiv(n, d) == IF n >= 0 THEN n \div d ELSE -((-n) \div d)

RECURSIVE SumSeq(_)
SumSeq(s) == IF s = << >> THEN 0 ELSE Head(s) + SumSeq(Tail(s))

\* list.pop(index) leaves the list without its index-th element (1-based here).
RemoveAt(s, i) == [j \in 1 .. (Len(s) - 1) |-> IF j < i THEN s[j] ELSE s[j + 1]]

\* ------------------------------------------------------------------------
\* Timestamps: a wall-clock reading in ticks and its tzinfo.
\* ------------------------------------------------------------------------
NoneTs == [wall |-> 0, tz |-> "none"]

UtcTs(t) == [wall |-> t, tz |-> "utc"]

\* utcoffset of the tzinfo, in ticks ("plus1" is a zone one second east of UTC).
UtcOffset(tz) == IF tz = "plus1" THEN TicksPerSecond ELSE 0

\* inventory.py:178-181: a naive timestamp is stamped UTC as it is, an aware
\* one is converted to UTC.
ToUtcKeepWall(ts) == ts.wall

ToUtc(ts) == IF ts.tz = "naive" THEN ts.wall ELSE ts.wall - UtcOffset(ts.tz)

\* ------------------------------------------------------------------------
\* CardReward
\* ------------------------------------------------------------------------
EmptyReward == [currencies |-> EmptyMap, experience |-> 0]

MergeOverwrite(self, other) ==
    [currencies |-> [n \in (DOMAIN self.currencies) \cup (DOMAIN other.currencies) |->
                        IF n \in DOMAIN other.currencies THEN other.currencies[n]
                        ELSE self.currencies[n]],
     experience |-> other.experience]

Merge(self, other) ==
    [currencies |-> [n \in (DOMAIN self.currencies) \cup (DOMAIN other.currencies) |->
                        Get(self.currencies, n) + Get(other.currencies, n)],
     experience |-> self.experience + other.experience]

\* ------------------------------------------------------------------------
\* The catalog, the currency registry and the configurations explored.
\* max_copies is {} for None and {n} for the cap n; a drop_weight of 0
\* stands for None (both are falsy at inventory.py:199); an empty mapping
\* stands for a card_weights / rarity_weights of None.  Card and CardReward
\* are plain dataclasses and register_card stores what it is given, so a
\* reward may take coins ("hex") or experience ("drain") away and a
\* drop_weight may be negative.  CardPack.cards is any sequence of card ids,
\* and neither register_pack nor the validator of catalog documents minds an
\* id that comes twice ("twins").
\* ------------------------------------------------------------------------
Cards ==
    [alpha |-> [rarity |-> "common", max_copies |-> {1}, drop_weight |-> 0,
                reward |-> [currencies |-> [coins |-> 2], experience |-> 1]],
     beta  |-> [rarity |-> "rare", max_copies |-> {}, drop_weight |-> 0,
                reward |-> [currencies |-> [coins |-> 1], experience |-> 0]],
     hex   |-> [rarity |-> "epic", max_copies |-> {}, drop_weight |-> WeightUnit,
                reward |-> [currencies |-> [coins |-> -1], experience |-> 0]],
     ghost |-> [rarity |-> "epic", max_copies |-> {}, drop_weight |-> WeightUnit,
                reward |-> [currencies |-> [scrap |-> 1], experience |-> 0]],
     drain |-> [rarity |-> "legendary", max_copies |-> {}, drop_weight |-> -WeightUnit,
                reward |-> [currencies |-> EmptyMap, experience |-> -1]]]

CardIds == DOMAIN Cards

Packs ==
    [starters |-> [cards |-> <<"alpha">>, allow_duplicates |-> TRUE, max_per_roll |-> 1,
                   card_weights |-> EmptyMap, rarity_weights |-> EmptyMap],
     duo      |-> [cards |-> <<"alpha", "beta">>, allow_duplicates |-> TRUE, max_per_roll |-> 2,
                   card_weights |-> [alpha |-> 1, beta |-> 10 * WeightUnit],
                   rarity_weights |-> EmptyMap],
     strict   |-> [cards |-> <<"alpha", "beta">>, allow_duplicates |-> FALSE, max_per_roll |-> 2,
                   card_weights |-> EmptyMap, rarity_weights |-> [rare |-> 2 * WeightUnit]],
     cursed   |-> [cards |-> <<"hex">>, allow_duplicates |-> TRUE, max_per_roll |-> 1,
                   card_weights |-> EmptyMap, rarity_weights |-> EmptyMap],
     odd      |-> [cards |-> <<"ghost">>, allow_duplicates |-> TRUE, max_per_roll |-> 1,
                   card_weights |-> EmptyMap, rarity_weights |-> EmptyMap],
     empty    |-> [cards |-> << >>, allow_duplicates |-> TRUE, max_per_roll |-> 1,
                   card_weights |-> EmptyMap, rarity_weights |-> EmptyMap],
     leech    |-> [cards |-> <<"drain">>, allow_duplicates |-> TRUE, max_per_roll |-> 1,
                   card_weights |-> EmptyMap, rarity_weights |-> EmptyMap],
     twins    |-> [cards |-> <<"beta", "beta">>, allow_duplicates |-> FALSE, max_per_roll |-> 2,
                   card_weights |-> EmptyMap, rarity_weights |-> EmptyMap]]

PackIds == DOMAIN Packs

\* CurrencyRegistry._currencies ("scrap" is a code nobody registered)
Registered == {"coins", "dust"}

\* DropConfig.rarity_weights: any mapping, read with .get()
GlobalRarityWeights == [common |-> WeightUnit, rare |-> 0, legendary |-> -WeightUnit]

\* The duplicate strategy handed to the engine: PenaltyDuplicateStrategy with
\* duplicate_penalty = num / den, or DustDuplicateStrategy(currency, amount).
Strategies ==
    {[kind |-> "penalty", num |-> 0, den |-> 1, currency |-> "", amount |-> 0],
     [kind |-> "penalty", num |-> 1, den |-> 2, currency |-> "", amount |-> 0],
     [kind |-> "dust", num |-> 0, den |-> 1, currency |-> "dust", amount |-> 1]}

\* InMemoryDropHistoryStore(maxlen=5000), unless the application is built
\* with a store of another capacity
HistoryMaxlen == 5000

Configs ==
    [store : {"memory", "sql"},
     base_cooldown_seconds : {0, 1},
     allow_duplicates : BOOLEAN,
     max_cards_per_drop : {1, 2},
     strategy : Strategies,
     history_maxlen : {HistoryMaxlen}]

\* ------------------------------------------------------------------------
\* Card helpers
\* ------------------------------------------------------------------------
HasCap(card_id) == Cards[card_id].max_copies # {}

Cap(card_id) == CHOOSE n \in Cards[card_id].max_copies : TRUE

\* inventory.py:85 / player.py:77 / admin/service.py:58
CapReachedNever(card_id, qty) == FALSE

CapReached(card_id, qty) == HasCap(card_id) /\ qty >= Cap(card_id)

\* ------------------------------------------------------------------------
\* Duplicate strategies
\* ------------------------------------------------------------------------
PenaltyHandle(card_id) ==
    IF cfg.strategy.num <= 0 THEN EmptyReward
    ELSE LET r == Cards[card_id].reward IN
         [currencies |-> [c \in DOMAIN r.currencies |->
                             TruncDiv(r.currencies[c] * cfg.strategy.num, cfg.strategy.den)],
          experience |-> TruncDiv(r.experience * cfg.strategy.num, cfg.strategy.den)]

DustHandle(card_id) ==
    IF cfg.strategy.amount <= 0 THEN EmptyReward
    ELSE [currencies |-> [c \in {cfg.strategy.currency} |-> cfg.strategy.amount],
          experience |-> 0]

DuplicateHandleFull(card_id) == Cards[card_id].reward

DuplicateHandle(card_id) ==
    IF cfg.strategy.kind = "dust" THEN DustHandle(card_id) ELSE PenaltyHandle(card_id)

\* ------------------------------------------------------------------------
\* Cooldown
\* ------------------------------------------------------------------------
CooldownRemainingNoGate(record, nowTs) == 0

CooldownRemainingRoundUp(record, nowTs) ==
    IF record.last_drop_at.tz = "none" THEN 0
    ELSE LET delta == ToUtc(nowTs) - ToUtc(record.last_drop_at)
         IN  Max2(0, cfg.base_cooldown_seconds - (TruncDiv(delta, TicksPerSecond) + 1))

CooldownRemaining(record, nowTs) ==
    IF record.last_drop_at.tz = "none" THEN 0
    ELSE LET delta == ToUtc(nowTs) - ToUtc(record.last_drop_at)
         IN  Max2(0, cfg.base_cooldown_seconds - TruncDiv(delta, TicksPerSecond))

\* ------------------------------------------------------------------------
\* Eligible cards, weights and the draw
\* ------------------------------------------------------------------------
RECURSIVE FilterCardsOwnedAlways(_, _, _)
FilterCardsOwnedAlways(cards, record, allow_duplicates) ==
    IF cards = << >> THEN << >>
    ELSE LET card == Head(cards)
             owned == Get(record.inventory, card)
             rest == FilterCardsOwnedAlways(Tail(cards), record, allow_duplicates)
         IN  IF owned > 0 THEN rest
             ELSE <<card>> \o rest

RECURSIVE FilterCards(_, _, _)
FilterCards(cards, record, allow_duplicates) ==
    IF cards = << >> THEN << >>
    ELSE LET card == Head(cards)
             owned == Get(record.inventory, card)
             rest == FilterCards(Tail(cards), record, allow_duplicates)
         IN  IF ~allow_duplicates /\ owned > 0 THEN rest
             ELSE IF CapReached(card, owned) /\ ~allow_duplicates THEN rest
             ELSE <<card>> \o rest

\* A resolution that asks the card ahead of the pack
CardWeightCardFirst(card_id, pack) ==
    IF Cards[card_id].drop_weight > 0
    THEN Cards[card_id].drop_weight
    ELSE IF /\ pack.card_weights # EmptyMap
            /\ card_id \in DOMAIN pack.card_weights
            /\ pack.card_weights[card_id] > 0
    THEN pack.card_weights[card_id]
    ELSE IF pack.rarity_weights # EmptyMap /\ Get(pack.rarity_weights, Cards[card_id].rarity) > 0
    THEN Get(pack.rarity_weights, Cards[card_id].rarity)
    ELSE IF Get(GlobalRarityWeights, Cards[card_id].rarity) > 0
    THEN Get(GlobalRarityWeights, Cards[card_id].rarity)
    ELSE WeightUnit

CardWeight(card_id, pack) ==
    IF /\ pack.card_weights # EmptyMap
       /\ card_id \in DOMAIN pack.card_weights
       /\ pack.card_weights[card_id] > 0
    THEN pack.card_weights[card_id]
    ELSE IF Cards[card_id].drop_weight > 0
    THEN Cards[card_id].drop_weight
    ELSE IF pack.rarity_weights # EmptyMap /\ Get(pack.rarity_weights, Cards[card_id].rarity) > 0
    THEN Get(pack.rarity_weights, Cards[card_id].rarity)
    ELSE IF Get(GlobalRarityWeights, Cards[card_id].rarity) > 0
    THEN Get(GlobalRarityWeights, Cards[card_id].rarity)
    ELSE WeightUnit

\* int(random() * len(weights)), 1-based
UniformIndex(weights, k) == ((k * Len(weights)) \div RngDen) + 1

\* A walk that passes a cumulative sum equal to the threshold
RECURSIVE WalkWeightsStrict(_, _, _, _, _)
WalkWeightsStrict(weights, idx, cumulative, k, total) ==
    IF idx > Len(weights) THEN Len(weights)
    ELSE LET c == cumulative + weights[idx]
         IN  IF k * total < c * RngDen THEN idx
             ELSE WalkWeightsStrict(weights, idx + 1, c, k, total)

RECURSIVE WalkWeights(_, _, _, _, _)
WalkWeights(weights, idx, cumulative, k, total) ==
    IF idx > Len(weights) THEN Len(weights)
    ELSE LET c == cumulative + weights[idx]
         IN  IF k * total <= c * RngDen THEN idx
             ELSE WalkWeights(weights, idx + 1, c, k, total)

\* threshold = random() * total = k * total / RngDen; 1-based index
WeightedIndex(weights, k) ==
    LET total == SumSeq(weights)
    IN  IF total <= 0 THEN UniformIndex(weights, k)
        ELSE WalkWeights(weights, 1, 0, k, total)

\* A draw that leaves the pool as it is
DrawWithReplacement(cards_pool, weights_pool, n, rs) ==
    [i \in 1 .. n |-> cards_pool[WeightedIndex(weights_pool, rs[i])]]

RECURSIVE DrawWithoutReplacement(_, _, _, _)
DrawWithoutReplacement(cards_pool, weights_pool, n, rs) ==
    IF n = 0 THEN << >>
    ELSE LET index == WeightedIndex(weights_pool, Head(rs))
         IN  <<cards_pool[index]>> \o
             DrawWithoutReplacement(RemoveAt(cards_pool, index), RemoveAt(weights_pool, index),
                                    n - 1, Tail(rs))

\* rs is the stream of values the generator returns to this call.
DrawCards(pack, cards, amount, allow_duplicates, rs) ==
    LET weights == [i \in 1 .. Len(cards) |-> CardWeight(cards[i], pack)]
    IN  IF allow_duplicates
        THEN [i \in 1 .. amount |-> cards[WeightedIndex(weights, rs[i])]]
        ELSE DrawWithoutReplacement(cards, weights, Min2(amount, Len(cards)), rs)

\* ------------------------------------------------------------------------
\* Wallet (economy.py).  Each operation yields whether it returned normally
\* (ok) and the balances afterwards.
\* ------------------------------------------------------------------------
WalletCreditOverwrite(balances, currency, amount) ==
    IF amount < 0 THEN [ok |-> FALSE, balances |-> balances]
    ELSE [ok |-> TRUE, balances |-> Put(balances, currency, amount)]

WalletCredit(balances, currency, amount) ==
    IF amount < 0 THEN [ok |-> FALSE, balances |-> balances]
    ELSE [ok |-> TRUE, balances |-> Put(balances, currency, Get(balances, currency) + amount)]

WalletDebitUnchecked(balances, currency, amount) ==
    [ok |-> TRUE, balances |-> Put(balances, currency, Get(balances, currency) - amount)]

WalletDebit(balances, currency, amount) ==
    IF amount < 0 THEN [ok |-> FALSE, balances |-> balances]
    ELSE IF Get(balances, currency) < amount THEN [ok |-> FALSE, balances |-> balances]
    ELSE [ok |-> TRUE, balances |-> Put(balances, currency, Get(balances, currency) - amount)]

\* Wallet.merge: one credit or debit per entry of the reward mapping; the
\* entries have distinct keys, so each one acts on its own balance.
WalletMerge(balances, rewards) ==
    LET step(c) == IF rewards[c] >= 0 THEN WalletCredit(balances, c, rewards[c])
                   ELSE WalletDebit(balances, c, -rewards[c])
        ok == \A c \in DOMAIN rewards : step(c).ok
    IN  [ok |-> ok,
         balances |-> IF ~ok THEN balances
                      ELSE [c \in (DOMAIN balances) \cup (DOMAIN rewards) |->
                               IF c \in DOMAIN rewards THEN step(c).balances[c]
                               ELSE balances[c]]]

\* CurrencyRegistry.ensure_codes: TRUE when it returns, FALSE when it raises
EnsureCodes(codes) == \A code \in codes : code \in Registered

\* ------------------------------------------------------------------------
\* Player stores.  table is InMemoryPlayerStore._records or the rows of
\* cardforge_players, depending on cfg.store.
\* ------------------------------------------------------------------------
NewRecord ==
    [inventory |-> EmptyMap, wallet |-> EmptyMap, experience |-> 0,
     last_drop_at |-> NoneTs, is_banned |-> FALSE]

\* A lookup that hands out a new record every time
GetOrCreateFresh(t, user_id) == Put(t, user_id, NewRecord)

GetOrCreate(t, user_id) == IF user_id \in DOMAIN t THEN t ELSE Put(t, user_id, NewRecord)

\* A save that forgets every other record
SaveAlone(t, user_id, record) == Put(EmptyMap, user_id, record)

Save(t, user_id, record) == Put(t, user_id, record)

MemoryMarkBanned(t, user_id, banned) ==
    LET t0 == GetOrCreate(t, user_id)
    IN  [t0 EXCEPT ![user_id].is_banned = banned]

SqlMarkBanned(t, user_id, banned) ==
    IF user_id \in DOMAIN t THEN [t EXCEPT ![user_id].is_banned = banned] ELSE t

MarkBanned(t, user_id, banned) ==
    IF cfg.store = "memory" THEN MemoryMarkBanned(t, user_id, banned)
    ELSE SqlMarkBanned(t, user_id, banned)

\* deque(maxlen=...).append
AuditMaxlen == 1000

\* An append that refuses the new element when the deque is full
DequeAppendKeepOldest(q, maxlen, x) ==
    IF Len(q) >= maxlen THEN q ELSE Append(q, x)

DequeAppend(q, maxlen, x) ==
    IF Len(q) >= maxlen THEN Append(Tail(q), x) ELSE Append(q, x)

\* ------------------------------------------------------------------------
\* The latest call (the pack of a drop with it) and what its caller got
\* back: "ok" or the exception
\* raised, the seconds carried by CooldownActive, the fields of a DropOutcome,
\* the boolean of is_banned, the records of recent_for_user with the limit
\* asked for.  For a call of AdminService, effects lists the
\* calls it awaited on its stores and on the event bus, in the order of
\* the code.
\* ------------------------------------------------------------------------
NoCall ==
    [op |-> "none", user |-> 0, pack |-> "none", result |-> "none", remaining |-> 0,
     cards |-> << >>, duplicates |-> << >>, reward |-> EmptyReward,
     next_drop_at |-> NoneTs, flag |-> FALSE, effects |-> << >>, limit |-> 0,
     records |-> << >>]

Call(op, user_id, result) == [NoCall EXCEPT !.op = op, !.user = user_id, !.result = result]

\* ------------------------------------------------------------------------
\* InventoryService.drop_from_pack
\* ------------------------------------------------------------------------
\* The drops that completed so far (each published its event)
DropsCompleted ==
    Cardinality({i \in DOMAIN published : published[i].name = "player.drop.completed"})

\* A loop that neither grants a card nor lists it
DropLoopSkipAll(drawn, inventory, reward, duplicates, allow_duplicates) ==
    [inventory |-> inventory, reward |-> reward, duplicates |-> duplicates]

RECURSIVE DropLoop(_, _, _, _, _)
DropLoop(drawn, inventory, reward, duplicates, allow_duplicates) ==
    IF drawn = << >>
    THEN [inventory |-> inventory, reward |-> reward, duplicates |-> duplicates]
    ELSE LET card == Head(drawn)
             current_qty == Get(inventory, card)
         IN  IF ~allow_duplicates /\ current_qty # 0
             THEN DropLoop(Tail(drawn), inventory, Merge(reward, DuplicateHandle(card)),
                           Append(duplicates, card), allow_duplicates)
             ELSE IF CapReached(card, current_qty)
             THEN DropLoop(Tail(drawn), inventory, Merge(reward, DuplicateHandle(card)),
                           Append(duplicates, card), allow_duplicates)
             ELSE DropLoop(Tail(drawn), Put(inventory, card, current_qty + 1),
                           Merge(reward, Cards[card].reward), duplicates, allow_duplicates)

\* The values self._rng.random() returns to one call, as multiples of
\* 1 / RngDen: a call on pack_id draws at most min(max_per_roll,
\* max_cards_per_drop) of them.
RngStreams(pack_id) ==
    [1 .. Min2(Packs[pack_id].max_per_roll, cfg.max_cards_per_drop) -> 0 .. (RngDen - 1)]

DropFromPack(user_id, pack_id, rs) ==
    LET t0 == GetOrCreate(table, user_id)
        record == t0[user_id]
        nowTs == UtcTs(now)
        remaining == CooldownRemaining(record, nowTs)
        pack == Packs[pack_id]
        allow_duplicates == cfg.allow_duplicates /\ pack.allow_duplicates
        eligible == FilterCards(pack.cards, record, allow_duplicates)
        draw_count == Min2(Min2(pack.max_per_roll, cfg.max_cards_per_drop), Len(eligible))
        drawn_cards == DrawCards(pack, eligible, draw_count, allow_duplicates, rs)
        loop == DropLoop(drawn_cards, record.inventory, EmptyReward, << >>, allow_duplicates)
        \* record.inventory is updated in place by the loop: with the in-memory
        \* store the record is the stored object, with the relational one a copy.
        touched == IF cfg.store = "memory"
                   THEN [t0 EXCEPT ![user_id].inventory = loop.inventory]
                   ELSE t0
        wallet == WalletMerge(record.wallet, loop.reward.currencies)
        saved == [record EXCEPT !.inventory = loop.inventory,
                                !.wallet = wallet.balances,
                                !.experience = @ + loop.reward.experience,
                                !.last_drop_at = nowTs]
        next_drop == UtcTs(now + cfg.base_cooldown_seconds * TicksPerSecond)
        \* a failed call may leave its cards in the stored inventory: cap the counts
        bounded == \A c \in DOMAIN loop.inventory : loop.inventory[c] <= MaxCount
        fail(t, result, rem) ==
            /\ table' = t
            /\ last' = [Call("drop_from_pack", user_id, result) EXCEPT
                           !.pack = pack_id, !.remaining = rem]
            /\ UNCHANGED <<history, published>>
    IN  /\ IF record.is_banned THEN fail(t0, "PlayerBanned", 0)
           ELSE IF remaining > 0 THEN fail(t0, "CooldownActive", remaining)
           ELSE IF eligible = << >> THEN fail(t0, "NoCardsAvailable", 0)
           ELSE IF loop.reward.currencies # EmptyMap
                   /\ ~EnsureCodes(DOMAIN loop.reward.currencies)
                THEN bounded /\ fail(touched, "KeyError", 0)
           ELSE IF ~wallet.ok THEN bounded /\ fail(touched, "ValueError", 0)
           ELSE /\ DropsCompleted < MaxHistory
                /\ table' = Save(touched, user_id, saved)
                /\ history' = DequeAppend(history, cfg.history_maxlen,
                                  [user_id |-> user_id, card_ids |-> drawn_cards,
                                   timestamp |-> nowTs, rewards |-> loop.reward.currencies])
                /\ published' = Append(published,
                                  [name |-> "player.drop.completed", user_id |-> user_id])
                /\ last' = [Call("drop_from_pack", user_id, "ok") EXCEPT
                               !.pack = pack_id, !.cards = drawn_cards,
                               !.duplicates = loop.duplicates, !.reward = loop.reward,
                               !.next_drop_at = next_drop]
        /\ UNCHANGED <<cfg, beside, now, audit>>

\* InventoryService.is_banned
IsBanned(user_id) ==
    LET t0 == GetOrCreate(table, user_id)
    IN  /\ table' = t0
        /\ last' = [Call("is_banned", user_id, "ok") EXCEPT !.flag = t0[user_id].is_banned]
        /\ UNCHANGED <<cfg, beside, now, history, audit, published>>

\* InventoryService.cooldown_remaining
CooldownRemainingOf(user_id) ==
    LET t0 == GetOrCreate(table, user_id)
    IN  /\ table' = t0
        /\ last' = [Call("cooldown_remaining", user_id, "ok") EXCEPT
                       !.remaining = CooldownRemaining(t0[user_id], UtcTs(now))]
        /\ UNCHANGED <<cfg, beside, now, history, audit, published>>

\* ------------------------------------------------------------------------
\* PlayerService (player.py)
\* ------------------------------------------------------------------------
Amounts == {-1, 0, 1, 2}

Quantities == {0, 1, 2}

\* The card ids handed to add_card and grant_card ("nocard" is not in the catalog)
GrantableIds == {"alpha", "beta", "nocard"}

XpAmounts == {-1, 0, 1}

CurrencyCodes == {"coins", "dust"}

\* The arguments handed to grant_currency ("scrap" is not registered)
GrantCodes == {"coins", "scrap"}

GrantAmounts == {-1, 0, 1}

Fetch(user_id) ==
    /\ table' = GetOrCreate(table, user_id)
    /\ last' = Call("fetch", user_id, "ok")
    /\ UNCHANGED <<cfg, beside, now, history, audit, published>>

Spend(user_id, currency, amount) ==
    LET t0 == GetOrCreate(table, user_id)
        record == t0[user_id]
        wallet == WalletDebit(record.wallet, currency, amount)
        call(result) == Call("spend", user_id, result)
    IN  /\ IF amount <= 0 THEN table' = table /\ last' = call("ValueError")
           ELSE IF ~wallet.ok THEN table' = t0 /\ last' = call("InsufficientCurrency")
           ELSE /\ table' = Save(t0, user_id, [record EXCEPT !.wallet = wallet.balances])
                /\ last' = call("ok")
        /\ UNCHANGED <<cfg, beside, now, history, audit, published>>

Credit(user_id, currency, amount) ==
    LET t0 == GetOrCreate(table, user_id)
        record == t0[user_id]
        wallet == WalletCredit(record.wallet, currency, amount)
        call(result) == Call("credit", user_id, result)
    IN  /\ IF amount <= 0 THEN table' = table /\ last' = call("ValueError")
           ELSE /\ Get(wallet.balances, currency) <= MaxBalance
                /\ table' = Save(t0, user_id, [record EXCEPT !.wallet = wallet.balances])
                /\ last' = call("ok")
        /\ UNCHANGED <<cfg, beside, now, history, audit, published>>

ClearCooldown(user_id) ==
    LET t0 == GetOrCreate(table, user_id)
    IN  /\ table' = Save(t0, user_id, [t0[user_id] EXCEPT !.last_drop_at = NoneTs])
        /\ last' = Call("clear_cooldown", user_id, "ok")
        /\ UNCHANGED <<cfg, beside, now, history, audit, published>>

\* BotApp hands the catalog to PlayerService (app.py:62), so max_copies is read.
AddCard(user_id, card_id, quantity) ==
    LET t0 == GetOrCreate(table, user_id)
        record == t0[user_id]
        current == Get(record.inventory, card_id)
        call(result) == Call("add_card", user_id, result)
    IN  /\ IF quantity <= 0 THEN table' = table /\ last' = call("ValueError")
           ELSE IF card_id \notin CardIds THEN table' = t0 /\ last' = call("KeyError")
           ELSE IF CapReached(card_id, current)
                THEN table' = t0 /\ last' = call("NoCardsAvailable")
           ELSE /\ current + quantity <= MaxCount
                /\ table' = Save(t0, user_id,
                               [record EXCEPT !.inventory = Put(@, card_id, current + quantity)])
                /\ last' = call("ok")
        /\ UNCHANGED <<cfg, beside, now, history, audit, published>>

GrantExperience(user_id, amount) ==
    LET t0 == GetOrCreate(table, user_id)
        record == t0[user_id]
        call(result) == Call("grant_experience", user_id, result)
    IN  /\ IF amount = 0 THEN table' = t0
           ELSE /\ record.experience + amount <= MaxXp
                /\ table' = Save(t0, user_id,
                               [record EXCEPT !.experience = Max2(0, @ + amount)])
        /\ last' = call("ok")
        /\ UNCHANGED <<cfg, beside, now, history, audit, published>>

\* ------------------------------------------------------------------------
\* AdminService (admin/service.py).  Every operation that completes appends
\* one audit entry and publishes one event.
\* ------------------------------------------------------------------------
\* An _audit that writes nothing
AuditNothing(action, user_id, key, amount, ts) == audit

Audit(action, user_id, key, amount, ts) ==
    DequeAppend(audit, AuditMaxlen,
                [action |-> action, timestamp |-> UtcTs(now), user_id |-> user_id,
                 key |-> key, amount |-> amount, ts |-> ts])

Publish(name, user_id) == Append(published, [name |-> name, user_id |-> user_id])

BanUser(user_id) ==
    /\ Len(audit) < MaxAudit
    /\ table' = MarkBanned(table, user_id, TRUE)
    /\ audit' = Audit("ban", user_id, "", 0, NoneTs)
    /\ published' = Publish("admin.user.banned", user_id)
    /\ last' = [Call("ban_user", user_id, "ok") EXCEPT
                   !.effects = <<"mark_banned", "add_entry", "publish">>]
    /\ UNCHANGED <<cfg, beside, now, history>>

UnbanUser(user_id) ==
    /\ Len(audit) < MaxAudit
    /\ table' = MarkBanned(table, user_id, FALSE)
    /\ audit' = Audit("unban", user_id, "", 0, NoneTs)
    /\ published' = Publish("admin.user.unbanned", user_id)
    /\ last' = [Call("unban_user", user_id, "ok") EXCEPT
                   !.effects = <<"mark_banned", "add_entry", "publish">>]
    /\ UNCHANGED <<cfg, beside, now, history>>

GrantCurrency(user_id, currency, amount) ==
    LET t0 == GetOrCreate(table, user_id)
        record == t0[user_id]
        call(result) == Call("grant_currency", user_id, result)
    IN  /\ IF amount <= 0
           THEN /\ last' = call("ValueError")
                /\ UNCHANGED <<table, audit, published>>
           ELSE IF ~EnsureCodes({currency})
           THEN /\ last' = call("KeyError")
                /\ UNCHANGED <<table, audit, published>>
           ELSE /\ Len(audit) < MaxAudit
                /\ table' = Save(t0, user_id,
                               [record EXCEPT !.wallet =
                                   Put(@, currency, Get(record.wallet, currency) + amount)])
                /\ audit' = Audit("grant_currency", user_id, currency, amount, NoneTs)
                /\ published' = Publish("admin.currency.granted", user_id)
                /\ last' = [call("ok") EXCEPT
                               !.effects = <<"get_or_create", "save", "add_entry", "publish">>]
        /\ UNCHANGED <<cfg, beside, now, history>>

GrantCard(user_id, card_id, quantity) ==
    LET t0 == GetOrCreate(table, user_id)
        record == t0[user_id]
        current == Get(record.inventory, card_id)
        call(result) == Call("grant_card", user_id, result)
    IN  /\ IF quantity <= 0
           THEN /\ last' = call("ValueError")
                /\ UNCHANGED <<table, audit, published>>
           ELSE IF card_id \notin CardIds
           THEN /\ last' = call("KeyError")
                /\ UNCHANGED <<table, audit, published>>
           ELSE IF CapReached(card_id, current)
           THEN /\ last' = [call("NoCardsAvailable") EXCEPT !.effects = <<"get_or_create">>]
                /\ table' = t0
                /\ UNCHANGED <<audit, published>>
           ELSE /\ Len(audit) < MaxAudit
                /\ table' = Save(t0, user_id,
                               [record EXCEPT !.inventory = Put(@, card_id, current + quantity)])
                /\ audit' = Audit("grant_card", user_id, card_id, quantity, NoneTs)
                /\ published' = Publish("admin.card.granted", user_id)
                /\ last' = [call("ok") EXCEPT
                               !.effects = <<"get_or_create", "save", "add_entry", "publish">>]
        /\ UNCHANGED <<cfg, beside, now, history>>

AdjustExperience(user_id, delta) ==
    LET t0 == GetOrCreate(table, user_id)
        record == t0[user_id]
    IN  /\ Len(audit) < MaxAudit
        /\ table' = Save(t0, user_id, [record EXCEPT !.experience = Max2(0, @ + delta)])
        /\ audit' = Audit("adjust_xp", user_id, "", delta, NoneTs)
        /\ published' = Publish("admin.xp.adjusted", user_id)
        /\ last' = [Call("adjust_experience", user_id, "ok") EXCEPT
                       !.effects = <<"get_or_create", "save", "add_entry", "publish">>]
        /\ UNCHANGED <<cfg, beside, now, history>>

\* The timestamps an administrator hands to set_cooldown: None, the epoch of
\* the model, or a reading one tick ahead of the clock; aware (UTC) or naive.
CooldownInputs ==
    {NoneTs} \cup [wall : {0, now + 1}, tz : {"utc", "naive"}]

\* set_cooldown publishes no event.
SetCooldown(user_id, timestamp) ==
    LET t0 == GetOrCreate(table, user_id)
        record == t0[user_id]
    IN  /\ Len(audit) < MaxAudit
        /\ table' = Save(t0, user_id, [record EXCEPT !.last_drop_at = timestamp])
        /\ audit' = Audit("set_cooldown", user_id, "", 0, timestamp)
        /\ last' = [Call("set_cooldown", user_id, "ok") EXCEPT
                       !.effects = <<"get_or_create", "save", "add_entry">>]
        /\ UNCHANGED <<cfg, beside, now, history, published>>

\* ------------------------------------------------------------------------
\* InMemoryDropHistoryStore.recent_for_user (storage/memory.py)
\* ------------------------------------------------------------------------
\* [rec for rec in reversed(self._history) if rec.user_id == user_id]
RECURSIVE ReversedFor(_, _)
ReversedFor(h, user_id) ==
    IF h = << >> THEN << >>
    ELSE ReversedFor(Tail(h), user_id)
         \o (IF Head(h).user_id = user_id THEN <<Head(h)>> ELSE << >>)

\* filtered[:limit]: the first limit elements, or all but the last -limit
\* ones for a negative limit
SliceTo(filtered, limit) ==
    IF limit >= 0 THEN SubSeq(filtered, 1, Min2(limit, Len(filtered)))
    ELSE SubSeq(filtered, 1, Max2(0, Len(filtered) + limit))

Limits == {-1, 0, 1, 2}

RecentForUser(user_id, limit) ==
    /\ last' = [Call("recent_for_user", user_id, "ok") EXCEPT
                   !.limit = limit,
                   !.records = SliceTo(ReversedFor(history, user_id), limit)]
    /\ UNCHANGED <<cfg, beside, now, table, history, audit, published>>

\* ------------------------------------------------------------------------
\* The clock (datetime.now(timezone.utc))
\* ------------------------------------------------------------------------
Tick ==
    /\ now < MaxTime
    /\ now' = now + 1
    /\ UNCHANGED <<cfg, beside, table, history, audit, published, last>>

\* ------------------------------------------------------------------------
\* Specification
\* ------------------------------------------------------------------------
DropOn(P) == \E u \in Users, p \in P : \E rs \in RngStreams(p) : DropFromPack(u, p, rs)

DropStep == DropOn(PackIds)

IsBannedStep == \E u \in Users : IsBanned(u)

CooldownRemainingStep == \E u \in Users : CooldownRemainingOf(u)

FetchStep == \E u \in Users : Fetch(u)

SpendStep == \E u \in Users, c \in CurrencyCodes, a \in Amounts : Spend(u, c, a)

CreditStep == \E u \in Users, c \in CurrencyCodes, a \in Amounts : Credit(u, c, a)

ClearCooldownStep == \E u \in Users : ClearCooldown(u)

AddCardStep == \E u \in Users, c \in GrantableIds, q \in Quantities : AddCard(u, c, q)

GrantExperienceStep == \E u \in Users, a \in XpAmounts : GrantExperience(u, a)

BanUserStep == \E u \in Users : BanUser(u)

UnbanUserStep == \E u \in Users : UnbanUser(u)

GrantCurrencyStep ==
    \E u \in Users, c \in GrantCodes, a \in GrantAmounts : GrantCurrency(u, c, a)

GrantCardStep == \E u \in Users, c \in GrantableIds, q \in Quantities : GrantCard(u, c, q)

AdjustExperienceStep == \E u \in Users, d \in XpAmounts : AdjustExperience(u, d)

SetCooldownStep == \E u \in Users, ts \in CooldownInputs : SetCooldown(u, ts)

RecentForUserStep == \E u \in Users, limit \in Limits : RecentForUser(u, limit)

\* ------------------------------------------------------------------------
\* EventBus (domain/events.py)
\*
\* A listener is known by its identity.  What a listener does when awaited
\* is an input of publish: it returns, it raises, or it subscribes itself
\* once more to the event being published and returns.
\* ------------------------------------------------------------------------
EventNames == {"player.drop.completed", "admin.user.banned"}

ListenerIds == {"first", "second"}

Behaviours == {"return", "raise", "subscribe"}

\* self._listeners.get(event_name, ())
ListenersOf(registry, event_name) ==
    IF event_name \in DOMAIN registry THEN registry[event_name] ELSE << >>

\* self._listeners[event_name].append(listener)
BusAppend(registry, event_name, listener) ==
    Put(registry, event_name, Append(ListenersOf(registry, event_name), listener))

\* Nothing published yet
NoDelivery == [name |-> "none", invoked |-> << >>, result |-> "none"]

\* A loop that goes on to the next listener when one raises
RECURSIVE DeliverIsolated(_, _, _, _)
DeliverIsolated(snapshot, registry, event_name, how) ==
    IF snapshot = << >>
    THEN [listeners |-> registry, invoked |-> << >>, result |-> "ok"]
    ELSE LET listener == Head(snapshot)
             after == IF how[listener] = "subscribe"
                      THEN BusAppend(registry, event_name, listener)
                      ELSE registry
             rest == DeliverIsolated(Tail(snapshot), after, event_name, how)
         IN  [rest EXCEPT !.invoked = <<listener>> \o @,
                          !.result = IF how[listener] = "raise" THEN "raised" ELSE @]

\* for listener in list(...): await listener(payload)
RECURSIVE Deliver(_, _, _, _)
Deliver(snapshot, registry, event_name, how) ==
    IF snapshot = << >>
    THEN [listeners |-> registry, invoked |-> << >>, result |-> "ok"]
    ELSE LET listener == Head(snapshot)
             after == IF how[listener] = "subscribe"
                      THEN BusAppend(registry, event_name, listener)
                      ELSE registry
         IN  IF how[listener] = "raise"
             THEN [listeners |-> registry, invoked |-> <<listener>>, result |-> "raised"]
             ELSE LET rest == Deliver(Tail(snapshot), after, event_name, how)
                  IN  [rest EXCEPT !.invoked = <<listener>> \o @]

\* The subscriptions held, over all event names
RECURSIVE Subscriptions(_, _)
Subscriptions(registry, names) ==
    IF names = {} THEN 0
    ELSE LET n == CHOOSE x \in names : TRUE
         IN  Len(ListenersOf(registry, n)) + Subscriptions(registry, names \ {n})

BusSubscribe(event_name, listener) ==
    /\ Subscriptions(listeners, EventNames) < MaxListeners
    /\ listeners' = BusAppend(listeners, event_name, listener)
    /\ UNCHANGED <<delivery, registries, validator, inflight, transport, draw, services>>

BusPublish(event_name, how) ==
    LET run == Deliver(ListenersOf(listeners, event_name), listeners, event_name, how)
    IN  /\ Subscriptions(run.listeners, EventNames) <= MaxListeners
        /\ listeners' = run.listeners
        /\ delivery' = [name |-> event_name, invoked |-> run.invoked, result |-> run.result]
        /\ UNCHANGED <<registries, validator, inflight, transport, draw, services>>

\* self._listeners.clear()
BusClear ==
    /\ listeners' = EmptyMap
    /\ UNCHANGED <<delivery, registries, validator, inflight, transport, draw, services>>

BusSubscribeStep == \E n \in EventNames, l \in ListenerIds : BusSubscribe(n, l)

BusPublishStep == \E n \in EventNames, how \in [ListenerIds -> Behaviours] : BusPublish(n, how)

BusIdle == listeners = EmptyMap /\ delivery = NoDelivery

\* ------------------------------------------------------------------------
\* safe_api_call (telegram/api_utils.py)
\*
\* transport is the call of safe_api_call under way: where it stands (about
\* to await func, asleep, or done), the retries it was given, its attempt
\* counter, how often it awaited func, the delay it is about to sleep, the
\* delays it has slept, what func did last, and what the call returned ("value"
\* with the value of func, or "None").  What func does when awaited is an
\* input of each iteration.
\* ------------------------------------------------------------------------
\* retries, as handed to safe_api_call (3 by default)
Retries == 0 .. MaxRetries

\* TelegramRetryAfter.retry_after, in seconds (0 also stands for None)
RetryAfters == {0, 2, 5}

\* What func returns when it succeeds
ApiValues == {7, 42}

\* What awaiting func may do: return, or raise TelegramRetryAfter,
\* TelegramForbiddenError, TelegramBadRequest, another TelegramAPIError, or
\* any other Exception
ApiErrors == {"forbidden", "bad_request", "api_error", "exception"}

ApiOutcomes ==
    [kind : {"return"}, value : ApiValues, retry_after : {0}]
    \cup [kind : {"retry_after"}, value : {0}, retry_after : RetryAfters]
    \cup [kind : ApiErrors, value : {0}, retry_after : {0}]

NoApiCall ==
    [pc |-> "idle", retries |-> 0, attempt |-> 0, invoked |-> 0, delays |-> << >>, delay |-> 0,
     outcome |-> "none", returned |-> "none", value |-> 0]

TransportIdle == transport = NoApiCall

\* A limit that lets one more attempt through
RetryLimitExceeded(attempt, retries) == attempt > retries

\* if attempt >= retries
RetryLimitReached(attempt, retries) == attempt >= retries

\* float(getattr(exc, "retry_after", 0) or 1.0)
RetryDelay(retry_after) == IF retry_after = 0 THEN 1 ELSE retry_after

\* attempt = 0, and into the loop
SafeApiCall(retries) ==
    /\ transport.pc \in {"idle", "done"}
    /\ transport' = [NoApiCall EXCEPT !.pc = "calling", !.retries = retries]
    /\ UNCHANGED <<bus, registries, validator, inflight, draw, services>>

\* One iteration of the loop: await func, and the except clause it lands in
ApiAttempt(outcome) ==
    LET attempt == transport.attempt + 1
        called == [transport EXCEPT !.invoked = @ + 1, !.outcome = outcome.kind]
    IN  /\ transport.pc = "calling"
        /\ transport' =
              IF outcome.kind = "return"
              THEN [called EXCEPT !.pc = "done", !.returned = "value", !.value = outcome.value]
              ELSE IF outcome.kind = "retry_after"
              THEN IF RetryLimitReached(attempt, transport.retries)
                   THEN [called EXCEPT !.pc = "done", !.returned = "None", !.attempt = attempt]
                   ELSE [called EXCEPT !.pc = "sleeping", !.attempt = attempt,
                                       !.delay = RetryDelay(outcome.retry_after)]
              ELSE [called EXCEPT !.pc = "done", !.returned = "None"]
        /\ UNCHANGED <<bus, registries, validator, inflight, draw, services>>

\* await asyncio.sleep(delay) returns
ApiSleep ==
    /\ transport.pc = "sleeping"
    /\ transport' = [transport EXCEPT !.pc = "calling", !.delays = Append(@, transport.delay)]
    /\ UNCHANGED <<bus, registries, validator, inflight, draw, services>>

SafeApiCallStep == \E retries \in Retries : SafeApiCall(retries)

ApiAttemptStep == \E outcome \in ApiOutcomes : ApiAttempt(outcome)

\* ------------------------------------------------------------------------
\* _card_weight and _weighted_index on their own (domain/inventory.py)
\*
\* draw is one such call: its arguments (the card and the two weight
\* mappings of the pack, or the weight list and the value k / RngDen that
\* random() returns), whether it has returned, and its result, the index
\* being counted from 0 as in the code.
\* ------------------------------------------------------------------------
NoDraw ==
    [op |-> "none", card |-> "", card_weights |-> EmptyMap, rarity_weights |-> EmptyMap,
     weight |-> 0, weights |-> << >>, k |-> 0, index |-> 0, done |-> FALSE]

DrawIdle == draw = NoDraw

\* The weights a pack may give one card or one rarity: none, a negative
\* one, zero, or a positive one
CardWeightings ==
    {EmptyMap} \cup {[c \in {x} |-> v] : x \in {"alpha", "hex", "drain"},
                                       v \in {-WeightUnit, 0, 2 * WeightUnit}}

RarityWeightings ==
    {EmptyMap} \cup {[r \in {x} |-> v] : x \in {"common", "epic", "legendary"},
                                       v \in {-WeightUnit, 0, 3 * WeightUnit}}

\* The weight lists handed to _weighted_index: 0.1 is one unit of weight
\* when WeightUnit is 10
WeightLists == UNION {[1 .. n -> {0, 1, 2, 10 * WeightUnit}] : n \in 1 .. MaxWeights}

\* The calls explored
DrawCalls ==
    {[NoDraw EXCEPT !.op = "card_weight", !.card = card_id,
                    !.card_weights = card_weights, !.rarity_weights = rarity_weights] :
        card_id \in CardIds, card_weights \in CardWeightings,
        rarity_weights \in RarityWeightings}
    \cup {[NoDraw EXCEPT !.op = "weighted_index", !.weights = weights, !.k = k] :
            weights \in WeightLists, k \in 0 .. (RngDen - 1)}

\* self._card_weight(card, pack)
CardWeightCall ==
    /\ draw.op = "card_weight" /\ ~draw.done
    /\ draw' = [draw EXCEPT
                   !.done = TRUE,
                   !.weight = CardWeight(draw.card, [card_weights |-> draw.card_weights,
                                                     rarity_weights |-> draw.rarity_weights])]
    /\ UNCHANGED <<bus, registries, validator, transport, inflight, services>>

\* self._weighted_index(weights), random() returning k / RngDen
WeightedIndexCall ==
    /\ draw.op = "weighted_index" /\ ~draw.done
    /\ draw' = [draw EXCEPT !.done = TRUE,
                            !.index = WeightedIndex(draw.weights, draw.k) - 1]
    /\ UNCHANGED <<bus, registries, validator, transport, inflight, services>>

\* ------------------------------------------------------------------------
\* CardCatalog (domain/cards.py)
\*
\* catalog.cards is CardCatalog._cards and catalog.packs is
\* CardCatalog._packs; answer is what the latest call on the catalog (or
\* on the loader below) returned or raised.
\* ------------------------------------------------------------------------
\* The Card and CardPack objects handed to the catalog: two of each id,
\* told apart by their name.
CatalogCards ==
    [card_id : {"alpha", "beta"}, name : {"Alpha", "Other"}, rarity : {"common"},
     max_copies : {{}}, reward : {[currencies |-> [coins |-> 1], experience |-> 0]}]

CatalogPacks ==
    [pack_id : {"starters", "duo"}, name : {"Starters", "Other"}, cards : {<<"alpha">>},
     max_per_roll : {1}, card_weights : {EmptyMap}]

\* The ids looked up ("ghost" and "nopack" are never registered)
LookupCardIds == {"alpha", "beta", "ghost"}

LookupPackIds == {"starters", "duo", "nopack"}

EmptyCatalog == [cards |-> EmptyMap, packs |-> EmptyMap]

NoAnswer == [op |-> "none", result |-> "none", key |-> "", value |-> << >>]

Reply(op, result, key, value) == [op |-> op, result |-> result, key |-> key, value |-> value]

\* A register_card that stores whatever it is given
RegisterCardOverwrite(card) ==
    /\ catalog' = [catalog EXCEPT !.cards = Put(@, card.card_id, card)]
    /\ answer' = Reply("register_card", "ok", card.card_id, << >>)
    /\ UNCHANGED <<currency_registry, bus, validator, inflight, transport, draw, services>>

RegisterCard(card) ==
    /\ IF card.card_id \in DOMAIN catalog.cards
       THEN /\ answer' = Reply("register_card", "ValueError", card.card_id, << >>)
            /\ UNCHANGED catalog
       ELSE /\ catalog' = [catalog EXCEPT !.cards = Put(@, card.card_id, card)]
            /\ answer' = Reply("register_card", "ok", card.card_id, << >>)
    /\ UNCHANGED <<currency_registry, bus, validator, inflight, transport, draw, services>>

\* for card in cards: self.register_card(card)
RECURSIVE RegisterAllCards(_, _)
RegisterAllCards(registered, cards) ==
    IF cards = << >> THEN [cards |-> registered, result |-> "ok", key |-> ""]
    ELSE IF Head(cards).card_id \in DOMAIN registered
    THEN [cards |-> registered, result |-> "ValueError", key |-> Head(cards).card_id]
    ELSE RegisterAllCards(Put(registered, Head(cards).card_id, Head(cards)), Tail(cards))

RegisterCards(cards) ==
    LET run == RegisterAllCards(catalog.cards, cards)
    IN  /\ catalog' = [catalog EXCEPT !.cards = run.cards]
        /\ answer' = Reply("register_cards", run.result, run.key, << >>)
        /\ UNCHANGED <<currency_registry, bus, validator, inflight, transport, draw, services>>

GetCard(card_id) ==
    /\ answer' = IF card_id \in DOMAIN catalog.cards
                 THEN Reply("get_card", "ok", card_id, <<catalog.cards[card_id]>>)
                 ELSE Reply("get_card", "KeyError", card_id, << >>)
    /\ UNCHANGED <<catalog, currency_registry, bus, validator, inflight, transport, draw, services>>

RegisterPack(pack) ==
    /\ IF pack.pack_id \in DOMAIN catalog.packs
       THEN /\ answer' = Reply("register_pack", "ValueError", pack.pack_id, << >>)
            /\ UNCHANGED catalog
       ELSE /\ catalog' = [catalog EXCEPT !.packs = Put(@, pack.pack_id, pack)]
            /\ answer' = Reply("register_pack", "ok", pack.pack_id, << >>)
    /\ UNCHANGED <<currency_registry, bus, validator, inflight, transport, draw, services>>

GetPack(pack_id) ==
    /\ answer' = IF pack_id \in DOMAIN catalog.packs
                 THEN Reply("get_pack", "ok", pack_id, <<catalog.packs[pack_id]>>)
                 ELSE Reply("get_pack", "KeyError", pack_id, << >>)
    /\ UNCHANGED <<catalog, currency_registry, bus, validator, inflight, transport, draw, services>>

RegisterCardStep == \E card \in CatalogCards : RegisterCard(card)

RegisterCardsStep == \E first \in CatalogCards, second \in CatalogCards :
                         RegisterCards(<<first, second>>)

GetCardStep == \E card_id \in LookupCardIds : GetCard(card_id)

RegisterPackStep == \E pack \in CatalogPacks : RegisterPack(pack)

GetPackStep == \E pack_id \in LookupPackIds : GetPack(pack_id)

RegistriesIdle ==
    /\ catalog = EmptyCatalog
    /\ currency_registry = EmptyMap
    /\ answer = NoAnswer

\* ------------------------------------------------------------------------
\* The catalog document and its validator (loaders/json_loader.py)
\*
\* A document is the decoded JSON handed to validate_catalog_dict.  Values
\* the validator sends down one branch are one value here:
\*   - a list that is missing, not a list, or empty is << >>;
\*   - a string that is missing, not a string, or blank is "";
\*   - an optional number is {} when it is absent (None) and {n} otherwise,
\*     a value that is no number counting as a non-positive one;
\*   - an entry that is no JSON object has object = FALSE;
\*   - a dict that is missing, no dict, or empty is the empty map where the
\*     validator does not tell these apart (reward.currencies), and carries
\*     a kind where it does (image, cardWeights, rarityWeights);
\*   - image.url and image.local are "absent" for None.
\* The items of a dict are visited in one fixed order of its keys.
\* ------------------------------------------------------------------------
Rarities == {"common", "uncommon", "rare", "epic", "legendary"}

Err(rule, idx, subject, detail) ==
    [rule |-> rule, idx |-> idx, subject |-> subject, detail |-> detail]

When(condition, error) == IF condition THEN <<error>> ELSE << >>

RECURSIVE KeysOf(_)
KeysOf(S) ==
    IF S = {} THEN << >>
    ELSE LET k == CHOOSE x \in S : TRUE IN <<k>> \o KeysOf(S \ {k})

\* The members of the sequence s
Members(s) == {s[i] : i \in DOMAIN s}

\* for idx, entry in enumerate(currencies_raw, start=1): ...
RECURSIVE CurrencyLoop(_, _, _)
CurrencyLoop(entries, idx, currency_codes) ==
    IF entries = << >> THEN [errors |-> << >>, codes |-> currency_codes]
    ELSE LET entry == Head(entries)
             code == entry.code
         IN  IF ~entry.object
             THEN LET rest == CurrencyLoop(Tail(entries), idx + 1, currency_codes)
                  IN  [rest EXCEPT !.errors = <<Err("currency.object", idx, "", "")>> \o @]
             ELSE IF code = ""
             THEN LET rest == CurrencyLoop(Tail(entries), idx + 1, currency_codes)
                  IN  [rest EXCEPT !.errors = <<Err("currency.code", idx, "", "")>> \o @]
             ELSE LET rest == CurrencyLoop(Tail(entries), idx + 1, currency_codes \cup {code})
                  IN  [rest EXCEPT !.errors =
                          When(code \in currency_codes, Err("currency.duplicate", 0, code, ""))
                          \o @]

\* json_loader.py lines 121-139
ValidateCurrencies(currencies_raw) ==
    IF currencies_raw = << >>
    THEN [errors |-> <<Err("currencies.array", 0, "", "")>>, codes |-> {}]
    ELSE LET loop == CurrencyLoop(currencies_raw, 1, {})
         IN  [errors |-> loop.errors
                         \o When("coins" \notin loop.codes, Err("currency.coins", 0, "coins", "")),
              codes |-> loop.codes]

\* for field_name in ("name", "description", "rarity"): ...
RECURSIVE FieldErrors(_, _, _)
FieldErrors(entry, card_id, field_names) ==
    IF field_names = << >> THEN << >>
    ELSE When(entry[Head(field_names)] = "", Err("card.field", 0, card_id, Head(field_names)))
         \o FieldErrors(entry, card_id, Tail(field_names))

\* for currency_code, amount in reward_currencies.items(): ...
RECURSIVE RewardCurrencyErrors(_, _, _, _)
RewardCurrencyErrors(keys, reward_currencies, card_id, currency_codes) ==
    IF keys = << >> THEN << >>
    ELSE LET currency_code == Head(keys)
             amount == reward_currencies[currency_code]
         IN  When(currency_code \notin currency_codes,
                  Err("card.currency.unknown", 0, card_id, currency_code))
             \o When(amount < 0, Err("card.currency.amount", 0, card_id, currency_code))
             \o RewardCurrencyErrors(Tail(keys), reward_currencies, card_id, currency_codes)

\* json_loader.py lines 205-217
ImageErrors(image_data, card_id) ==
    IF image_data.kind = "missing" THEN << >>
    ELSE IF image_data.kind # "object" THEN <<Err("card.image.object", 0, card_id, "")>>
    ELSE When(image_data.url = "", Err("card.image.url", 0, card_id, ""))
         \o When(image_data.local = "", Err("card.image.local", 0, card_id, ""))
         \o When(image_data.url = "absent" /\ image_data.local = "absent",
                 Err("card.image.either", 0, card_id, ""))

\* json_loader.py lines 159-175: the checks of a card ahead of its reward
CardHeadErrors(entry, card_id) ==
    FieldErrors(entry, card_id, <<"name", "description", "rarity">>)
    \o When(entry.rarity \notin Rarities, Err("card.rarity", 0, card_id, entry.rarity))
    \o When(\E n \in entry.maxCopies : n <= 0, Err("card.maxCopies", 0, card_id, ""))
    \o When(\E n \in entry.weight : n <= 0, Err("card.weight", 0, card_id, ""))

\* json_loader.py lines 181-203: the checks of a reward that is an object
RewardErrors(reward, card_id, currency_codes) ==
    (IF reward.experience = {}
     THEN <<Err("card.experience.missing", 0, card_id, "")>>
     ELSE When(\E exp \in reward.experience : exp < 0,
               Err("card.experience", 0, card_id, "")))
    \o (IF reward.currencies = EmptyMap
        THEN <<Err("card.currencies", 0, card_id, "")>>
        ELSE (IF currency_codes # {}
              THEN RewardCurrencyErrors(KeysOf(DOMAIN reward.currencies), reward.currencies,
                                        card_id, currency_codes)
              ELSE << >>)
             \o When("coins" \notin DOMAIN reward.currencies,
                     Err("card.coins", 0, card_id, "")))

\* json_loader.py lines 159-217: the body of the loop for a card with an id
CardErrors(entry, card_id, currency_codes) ==
    IF ~entry.reward.object
    THEN CardHeadErrors(entry, card_id) \o <<Err("card.reward", 0, card_id, "")>>
    ELSE CardHeadErrors(entry, card_id)
         \o RewardErrors(entry.reward, card_id, currency_codes)
         \o ImageErrors(entry.image, card_id)

\* for idx, entry in enumerate(cards_raw, start=1): ...
RECURSIVE CardLoop(_, _, _, _)
CardLoop(entries, idx, card_ids, currency_codes) ==
    IF entries = << >> THEN [errors |-> << >>, ids |-> card_ids]
    ELSE LET entry == Head(entries)
             card_id == entry.id
         IN  IF ~entry.object
             THEN LET rest == CardLoop(Tail(entries), idx + 1, card_ids, currency_codes)
                  IN  [rest EXCEPT !.errors = <<Err("card.object", idx, "", "")>> \o @]
             ELSE IF card_id = ""
             THEN LET rest == CardLoop(Tail(entries), idx + 1, card_ids, currency_codes)
                  IN  [rest EXCEPT !.errors = <<Err("card.id", idx, "", "")>> \o @]
             ELSE LET rest == CardLoop(Tail(entries), idx + 1, card_ids \cup {card_id},
                                       currency_codes)
                  IN  [rest EXCEPT !.errors =
                          When(card_id \in card_ids, Err("card.duplicate", 0, card_id, ""))
                          \o CardErrors(entry, card_id, currency_codes)
                          \o @]

\* json_loader.py lines 141-217
ValidateCards(cards_raw, currency_codes) ==
    IF cards_raw = << >>
    THEN [errors |-> <<Err("cards.array", 0, "", "")>>, ids |-> {}]
    ELSE CardLoop(cards_raw, 1, {}, currency_codes)

\* A loop over a pack's cards that reports no unknown card
PackCardErrorsNone(cards, pack_id, card_ids) == << >>

\* for card_id in cards: ...
RECURSIVE PackCardErrors(_, _, _)
PackCardErrors(cards, pack_id, card_ids) ==
    IF cards = << >> THEN << >>
    ELSE When(card_ids # {} /\ Head(cards) \notin card_ids,
              Err("pack.card.unknown", 0, pack_id, Head(cards)))
         \o PackCardErrors(Tail(cards), pack_id, card_ids)

\* for card_id, weight in card_weights.items(): ...
RECURSIVE CardWeightErrors(_, _, _, _)
CardWeightErrors(keys, weights, pack_id, card_ids) ==
    IF keys = << >> THEN << >>
    ELSE LET card_id == Head(keys)
         IN  When(card_ids # {} /\ card_id \notin card_ids,
                  Err("pack.cardWeights.unknown", 0, pack_id, card_id))
             \o When(weights[card_id] <= 0, Err("pack.cardWeights.value", 0, pack_id, card_id))
             \o CardWeightErrors(Tail(keys), weights, pack_id, card_ids)

\* for rarity_code, weight in rarity_weights.items(): ...
RECURSIVE RarityWeightErrors(_, _, _)
RarityWeightErrors(keys, weights, pack_id) ==
    IF keys = << >> THEN << >>
    ELSE LET rarity_code == Head(keys)
         IN  When(rarity_code \notin Rarities,
                  Err("pack.rarityWeights.rarity", 0, pack_id, rarity_code))
             \o When(weights[rarity_code] <= 0,
                     Err("pack.rarityWeights.value", 0, pack_id, rarity_code))
             \o RarityWeightErrors(Tail(keys), weights, pack_id)

\* json_loader.py lines 231-271: the body of the loop for a pack with an id
PackErrors(entry, pack_id, card_ids) ==
    (IF entry.cards = << >>
     THEN <<Err("pack.cards", 0, pack_id, "")>>
     ELSE PackCardErrors(entry.cards, pack_id, card_ids))
    \o When(entry.maxPerRoll <= 0, Err("pack.maxPerRoll", 0, pack_id, ""))
    \o (IF entry.cardWeights.kind = "missing" THEN << >>
        ELSE IF entry.cardWeights.kind # "dict" \/ entry.cardWeights.weights = EmptyMap
        THEN <<Err("pack.cardWeights", 0, pack_id, "")>>
        ELSE CardWeightErrors(KeysOf(DOMAIN entry.cardWeights.weights),
                              entry.cardWeights.weights, pack_id, card_ids))
    \o (IF entry.rarityWeights.kind = "missing" THEN << >>
        ELSE IF entry.rarityWeights.kind # "dict" \/ entry.rarityWeights.weights = EmptyMap
        THEN <<Err("pack.rarityWeights", 0, pack_id, "")>>
        ELSE RarityWeightErrors(KeysOf(DOMAIN entry.rarityWeights.weights),
                                entry.rarityWeights.weights, pack_id))

\* for idx, entry in enumerate(packs_raw, start=1): ...
RECURSIVE PackLoop(_, _, _)
PackLoop(entries, idx, card_ids) ==
    IF entries = << >> THEN << >>
    ELSE LET entry == Head(entries)
         IN  (IF ~entry.object THEN <<Err("pack.object", idx, "", "")>>
              ELSE IF entry.id = "" THEN <<Err("pack.id", idx, "", "")>>
              ELSE PackErrors(entry, entry.id, card_ids))
             \o PackLoop(Tail(entries), idx + 1, card_ids)

\* json_loader.py lines 219-271
ValidatePacks(packs_raw, card_ids) ==
    IF packs_raw = << >> THEN <<Err("packs.array", 0, "", "")>>
    ELSE PackLoop(packs_raw, 1, card_ids)

ValidateCatalogDict(data) ==
    LET currencies == ValidateCurrencies(data.currencies)
        cards == ValidateCards(data.cards, currencies.codes)
    IN  currencies.errors \o cards.errors \o ValidatePacks(data.packs, cards.ids)

\* parse_card, parse_pack, parse_currency of an entry that passed validation
ParseCard(entry) ==
    [card_id |-> entry.id, name |-> entry.name, rarity |-> entry.rarity,
     max_copies |-> entry.maxCopies,
     reward |-> [currencies |-> entry.reward.currencies,
                 experience |-> CHOOSE exp \in entry.reward.experience : TRUE]]

ParsePack(entry) ==
    [pack_id |-> entry.id, name |-> entry.id, cards |-> entry.cards,
     max_per_roll |-> entry.maxPerRoll,
     card_weights |-> IF entry.cardWeights.kind = "dict" THEN entry.cardWeights.weights
                      ELSE EmptyMap]

\* for currency in definition.currencies: try: register except ValueError: continue
RECURSIVE RegisterCurrencies(_, _)
RegisterCurrencies(registered, entries) ==
    IF entries = << >> THEN registered
    ELSE IF Head(entries).code \in DOMAIN registered
    THEN RegisterCurrencies(registered, Tail(entries))
    ELSE RegisterCurrencies(Put(registered, Head(entries).code, Head(entries).code),
                            Tail(entries))

\* for pack in definition.packs: app.cards.catalog.register_pack(pack)
RECURSIVE RegisterAllPacks(_, _)
RegisterAllPacks(registered, packs) ==
    IF packs = << >> THEN [packs |-> registered, result |-> "ok", key |-> ""]
    ELSE IF Head(packs).pack_id \in DOMAIN registered
    THEN [packs |-> registered, result |-> "ValueError", key |-> Head(packs).pack_id]
    ELSE RegisterAllPacks(Put(registered, Head(packs).pack_id, Head(packs)), Tail(packs))

\* validate_catalog_dict(data), data being the document at hand
Validate ==
    /\ errors' = ValidateCatalogDict(document)
    /\ answer' = Reply("validate_catalog_dict", "ok", "", << >>)
    /\ UNCHANGED <<document, catalog, currency_registry, bus, inflight, transport, draw, services>>

\* load_catalog_from_json(app, path), the file holding the document at hand
LoadCatalogFromJson ==
    LET found == ValidateCatalogDict(document)
        cards == RegisterAllCards(catalog.cards,
                                  [i \in DOMAIN document.cards |-> ParseCard(document.cards[i])])
        packs == RegisterAllPacks(catalog.packs,
                                  [i \in DOMAIN document.packs |-> ParsePack(document.packs[i])])
    IN  /\ errors' = found
        /\ IF found # << >>
           THEN /\ answer' = Reply("load_catalog_from_json", "ValueError", "", << >>)
                /\ UNCHANGED <<catalog, currency_registry>>
           ELSE /\ currency_registry' = RegisterCurrencies(currency_registry, document.currencies)
                /\ IF cards.result # "ok"
                   THEN /\ catalog' = [catalog EXCEPT !.cards = cards.cards]
                        /\ answer' = Reply("load_catalog_from_json", cards.result, cards.key, << >>)
                   ELSE /\ catalog' = [cards |-> cards.cards, packs |-> packs.packs]
                        /\ answer' = Reply("load_catalog_from_json", packs.result, packs.key, << >>)
        /\ UNCHANGED <<document, bus, inflight, transport, draw, services>>

\* The documents explored: a well-formed one (SampleDocument), and every
\* document that at most MaxFaults of the replacements below make of it.
CurrencyEntry(code) == [object |-> TRUE, code |-> code]

NoImage == [kind |-> "missing", url |-> "absent", local |-> "absent"]

NoWeights == [kind |-> "missing", weights |-> EmptyMap]

CardEntry(card_id) ==
    [object |-> TRUE, id |-> card_id, name |-> "Name", description |-> "Text",
     rarity |-> "common", maxCopies |-> {}, weight |-> {},
     reward |-> [object |-> TRUE, experience |-> {0}, currencies |-> [coins |-> 1]],
     image |-> NoImage]

PackEntry(pack_id, cards) ==
    [object |-> TRUE, id |-> pack_id, cards |-> cards, maxPerRoll |-> 1,
     cardWeights |-> NoWeights, rarityWeights |-> NoWeights]

SampleDocument ==
    [currencies |-> <<CurrencyEntry("coins"), CurrencyEntry("gems")>>,
     cards |-> <<CardEntry("alpha"), CardEntry("beta")>>,
     packs |-> <<PackEntry("starters", <<"alpha">>), PackEntry("duo", <<"alpha", "beta">>)>>]

\* The document {}
NoDocument == [currencies |-> << >>, cards |-> << >>, packs |-> << >>]

\* The replacements of a currency entry: which entry, and by what
CurrencyFaults ==
    <<[at |-> 1, entry |-> [object |-> FALSE, code |-> ""]],
      [at |-> 1, entry |-> CurrencyEntry("")],
      [at |-> 1, entry |-> CurrencyEntry("gems")],
      [at |-> 1, entry |-> CurrencyEntry("dust")],
      [at |-> 2, entry |-> [object |-> FALSE, code |-> ""]],
      [at |-> 2, entry |-> CurrencyEntry("")],
      [at |-> 2, entry |-> CurrencyEntry("coins")]>>

\* The card entries one field away from entry
CardFaults(entry) ==
    <<[entry EXCEPT !.object = FALSE],
      [entry EXCEPT !.id = ""],
      [entry EXCEPT !.id = "beta"],
      [entry EXCEPT !.name = ""],
      [entry EXCEPT !.description = ""],
      [entry EXCEPT !.rarity = ""],
      [entry EXCEPT !.rarity = "bogus"],
      [entry EXCEPT !.maxCopies = {0}],
      [entry EXCEPT !.weight = {0}],
      [entry EXCEPT !.reward.object = FALSE],
      [entry EXCEPT !.reward.experience = {}],
      [entry EXCEPT !.reward.experience = {-1}],
      [entry EXCEPT !.reward.currencies = EmptyMap],
      [entry EXCEPT !.reward.currencies = [gems |-> 1]],
      [entry EXCEPT !.reward.currencies = [coins |-> -1]],
      [entry EXCEPT !.reward.currencies = [c \in {"coins", "dust"} |-> 1]],
      [entry EXCEPT !.image = [kind |-> "other", url |-> "absent", local |-> "absent"]],
      [entry EXCEPT !.image = [kind |-> "object", url |-> "absent", local |-> "absent"]],
      [entry EXCEPT !.image = [kind |-> "object", url |-> "", local |-> "absent"]],
      [entry EXCEPT !.image = [kind |-> "object", url |-> "http", local |-> ""]]>>

\* The pack entries one field away from entry
PackFaults(entry) ==
    <<[entry EXCEPT !.object = FALSE],
      [entry EXCEPT !.id = ""],
      [entry EXCEPT !.id = "duo"],
      [entry EXCEPT !.cards = << >>],
      [entry EXCEPT !.cards = <<"ghost">>],
      [entry EXCEPT !.maxPerRoll = 0],
      [entry EXCEPT !.cardWeights = [kind |-> "other", weights |-> EmptyMap]],
      [entry EXCEPT !.cardWeights = [kind |-> "dict", weights |-> [alpha |-> 1]]],
      [entry EXCEPT !.cardWeights = [kind |-> "dict", weights |-> [alpha |-> 0]]],
      [entry EXCEPT !.cardWeights = [kind |-> "dict", weights |-> [ghost |-> 1]]],
      [entry EXCEPT !.rarityWeights = [kind |-> "other", weights |-> EmptyMap]],
      [entry EXCEPT !.rarityWeights = [kind |-> "dict", weights |-> [common |-> 1]]],
      [entry EXCEPT !.rarityWeights = [kind |-> "dict", weights |-> [common |-> 0]]],
      [entry EXCEPT !.rarityWeights = [kind |-> "dict", weights |-> [bogus |-> 1]]]>>

ListFaults(data) ==
    <<[data EXCEPT !.currencies = << >>],
      [data EXCEPT !.cards = << >>],
      [data EXCEPT !.packs = << >>]>>

CurrencyFaultCount == Len(CurrencyFaults)

CardFaultCount == Len(CardFaults(CardEntry("alpha")))

PackFaultCount == Len(PackFaults(PackEntry("starters", <<"alpha">>)))

FaultCount == Len(ListFaults(SampleDocument)) + CurrencyFaultCount + CardFaultCount
              + PackFaultCount

\* The document with its k-th replacement made (none for k = 0): a list
\* emptied, a currency entry replaced, or a field of the first card or of
\* the first pack replaced.
Fault(data, k) ==
    LET c == k - Len(ListFaults(SampleDocument))
        d == c - CurrencyFaultCount
        e == d - CardFaultCount
    IN  IF k = 0 THEN data
        ELSE IF c <= 0 THEN ListFaults(data)[k]
        ELSE IF d <= 0
        THEN IF CurrencyFaults[c].at \in DOMAIN data.currencies
             THEN [data EXCEPT !.currencies[CurrencyFaults[c].at] = CurrencyFaults[c].entry]
             ELSE data
        ELSE IF e <= 0
        THEN IF data.cards # << >>
             THEN [data EXCEPT !.cards[1] = CardFaults(@)[d]]
             ELSE data
        ELSE IF data.packs # << >>
             THEN [data EXCEPT !.packs[1] = PackFaults(@)[e]]
             ELSE data

RECURSIVE Faulty(_, _)
Faulty(data, faults) ==
    IF faults = << >> THEN data ELSE Faulty(Fault(data, Head(faults)), Tail(faults))

\* The choices of at most MaxFaults replacements
FaultChoices == [1 .. MaxFaults -> 0 .. FaultCount]

ValidatorIdle == document = NoDocument /\ errors = << >>

\* The calls that may be in flight at once
Tasks == {1, 2}

\* No call in flight
NoTask ==
    [phase |-> "idle", user |-> 0, pack |-> "none", read |-> NewRecord, saved |-> NewRecord,
     cards |-> << >>, duplicates |-> << >>, reward |-> EmptyReward, at |-> NoneTs]

TasksIdle == inflight = [k \in Tasks |-> NoTask]

StandaloneIdle == BusIdle /\ RegistriesIdle /\ ValidatorIdle /\ TransportIdle /\ DrawIdle

BesideIdle == TasksIdle /\ StandaloneIdle

\* The state after construction, for the configurations in C.
InitServices(C) ==
    /\ cfg \in C
    /\ now = 0
    /\ table = EmptyMap
    /\ history = << >>
    /\ audit = << >>
    /\ published = << >>
    /\ last = NoCall

InitWith(C) == InitServices(C) /\ BesideIdle

Init == InitWith(Configs)

Next ==
    \/ DropStep
    \/ IsBannedStep
    \/ CooldownRemainingStep
    \/ FetchStep
    \/ SpendStep
    \/ CreditStep
    \/ ClearCooldownStep
    \/ AddCardStep
    \/ GrantExperienceStep
    \/ BanUserStep
    \/ UnbanUserStep
    \/ GrantCurrencyStep
    \/ GrantCardStep
    \/ AdjustExperienceStep
    \/ SetCooldownStep
    \/ RecentForUserStep
    \/ Tick

Spec == Init /\ [][Next]_vars

\* The cooldown gate: drops against the clock, with the calls that read or
\* reset last_drop_at and the ban that precedes the gate.
CooldownConfigs == {c \in Configs : /\ c.store = "memory"
                                    /\ c.allow_duplicates
                                    /\ c.max_cards_per_drop = 1
                                    /\ c.strategy.kind = "penalty" /\ c.strategy.num = 0}

InitCooldown == InitWith(CooldownConfigs)

CooldownDrop == DropOn({"starters"})

NextCooldown ==
    \/ CooldownDrop
    \/ CooldownRemainingStep
    \/ ClearCooldownStep
    \/ SetCooldownStep
    \/ BanUserStep
    \/ UnbanUserStep
    \/ Tick

SpecCooldown == InitCooldown /\ [][NextCooldown]_vars

\* The inventory: drops with every duplicate mode and roll size, every
\* strategy where a roll may draw two cards and the default one (no
\* substitute) where max_cards_per_drop is 1, and PlayerService.add_card.
CardsConfigs == {c \in Configs : /\ c.base_cooldown_seconds = 0
                                 /\ c.store = "memory"
                                 /\ \/ c.max_cards_per_drop = 2
                                    \/ c.strategy.kind = "penalty" /\ c.strategy.num = 0}

InitCards == InitWith(CardsConfigs)

CardsDrop == DropOn({"starters", "duo", "strict", "empty"})

NextCards ==
    \/ CardsDrop
    \/ AddCardStep

SpecCards == InitCards /\ [][NextCards]_vars

\* The two direct grants of cards, PlayerService.add_card and
\* AdminService.grant_card, with both player stores.
GrantsConfigs == {c \in Configs : /\ c.base_cooldown_seconds = 0
                                  /\ c.allow_duplicates
                                  /\ c.max_cards_per_drop = 1
                                  /\ c.strategy.kind = "penalty" /\ c.strategy.num = 0}

InitGrants == InitWith(GrantsConfigs)

NextGrants ==
    \/ AddCardStep
    \/ GrantCardStep
    \/ FetchStep

SpecGrants == InitGrants /\ [][NextGrants]_vars

\* The wallet: drops and the calls that credit or debit a balance.
WalletConfigs == {c \in Configs : /\ c.base_cooldown_seconds = 0
                                  /\ c.max_cards_per_drop = 1
                                  /\ c.allow_duplicates
                                  /\ c.strategy.kind = "dust"
                                  /\ c.store = "memory"}

InitWallet == InitWith(WalletConfigs)

WalletDrop == DropOn({"starters", "cursed"})

NextWallet ==
    \/ WalletDrop
    \/ SpendStep
    \/ CreditStep
    \/ GrantCurrencyStep

SpecWallet == InitWallet /\ [][NextWallet]_vars

\* The ban flag with both player stores.
BanConfigs == {c \in Configs : /\ c.allow_duplicates
                               /\ c.max_cards_per_drop = 1
                               /\ c.strategy.kind = "penalty" /\ c.strategy.num = 0}

InitBan == InitWith(BanConfigs)

BanDrop == DropOn({"starters"})

NextBan ==
    \/ BanDrop
    \/ IsBannedStep
    \/ FetchStep
    \/ BanUserStep
    \/ UnbanUserStep
    \/ Tick

SpecBan == InitBan /\ [][NextBan]_vars

\* The drop history: drops from one pack against the clock and
\* recent_for_user, with the in-memory stores; the history store built
\* with its default capacity or with room for MaxRetained records.
HistoryConfigs ==
    {[c EXCEPT !.history_maxlen = m] :
        c \in {x \in Configs : /\ x.store = "memory"
                               /\ x.base_cooldown_seconds = 0
                               /\ x.allow_duplicates
                               /\ x.max_cards_per_drop = 1
                               /\ x.strategy.kind = "penalty" /\ x.strategy.num = 0},
        m \in {MaxRetained, HistoryMaxlen}}

InitHistory == InitWith(HistoryConfigs)

HistoryDrop == DropOn({"duo"})

NextHistory ==
    \/ HistoryDrop
    \/ RecentForUserStep
    \/ Tick

SpecHistory == InitHistory /\ [][NextHistory]_vars

TypeOK ==
    /\ cfg \in Configs \cup HistoryConfigs
    /\ now \in 0 .. MaxTime
    /\ DOMAIN table \subseteq Users
    /\ Len(history) <= MaxHistory
    /\ Len(audit) <= MaxAudit

\* ------------------------------------------------------------------------
\* What the properties below read off a state
\* ------------------------------------------------------------------------
\* The record a call on user_id works on: the stored one, or a fresh one.
Rec(user_id) == GetOrCreate(table, user_id)[user_id]

\* Whole seconds between record.last_drop_at and the clock
ElapsedSeconds(record) == TruncDiv(now - ToUtc(record.last_drop_at), TicksPerSecond)

\* The history records of user_id, oldest first
RECURSIVE RecordsOf(_, _)
RecordsOf(h, user_id) ==
    IF h = << >> THEN << >>
    ELSE IF Head(h).user_id = user_id THEN <<Head(h)>> \o RecordsOf(Tail(h), user_id)
    ELSE RecordsOf(Tail(h), user_id)

HasDropped(user_id) == RecordsOf(history, user_id) # << >>

\* The time of the latest successful drop of user_id
LastDropAt(user_id) ==
    LET r == RecordsOf(history, user_id) IN r[Len(r)].timestamp

\* C1: a drop of a user who is not banned fails with CooldownActive, carrying
\* base_cooldown_seconds minus the elapsed whole seconds (> 0), whenever fewer
\* whole seconds than base_cooldown_seconds have elapsed since last_drop_at;
\* a successful drop sets last_drop_at to its own time; and a drop that
\* succeeds while last_drop_at is still the time of the previous successful
\* drop comes at least base_cooldown_seconds after it.
C1_CooldownGate ==
    [][\A u \in Users, p \in PackIds : \A rs \in RngStreams(p) :
          (last'.pack = p /\ DropFromPack(u, p, rs)) =>
              LET record == Rec(u) IN
              /\ (/\ ~record.is_banned
                  /\ record.last_drop_at # NoneTs
                  /\ ElapsedSeconds(record) < cfg.base_cooldown_seconds)
                 => /\ last'.result = "CooldownActive"
                    /\ last'.remaining > 0
                    /\ last'.remaining = cfg.base_cooldown_seconds - ElapsedSeconds(record)
              /\ last'.result = "ok" => table'[u].last_drop_at = UtcTs(now)
              /\ (/\ last'.result = "ok"
                  /\ HasDropped(u)
                  /\ record.last_drop_at = LastDropAt(u))
                 => now - LastDropAt(u).wall >= cfg.base_cooldown_seconds * TicksPerSecond
      ]_vars

\* Two drops succeeded a cooldown apart and the next, immediate one was rejected.
C1_Witness ==
    /\ cfg.base_cooldown_seconds > 0
    /\ Len(history) = 2
    /\ history[2].timestamp.wall - history[1].timestamp.wall
          >= cfg.base_cooldown_seconds * TicksPerSecond
    /\ last.op = "drop_from_pack"
    /\ last.result = "CooldownActive"
    /\ last.remaining = cfg.base_cooldown_seconds

RECURSIVE Count(_, _)
Count(x, seq) ==
    IF seq = << >> THEN 0
    ELSE (IF Head(seq) = x THEN 1 ELSE 0) + Count(x, Tail(seq))

Range(seq) == {seq[i] : i \in 1 .. Len(seq)}

AllCodes == Registered \cup {"scrap"}

StoredInventory(t, user_id) == IF user_id \in DOMAIN t THEN t[user_id].inventory ELSE EmptyMap

StoredWallet(t, user_id) == IF user_id \in DOMAIN t THEN t[user_id].wallet ELSE EmptyMap

StoredExperience(t, user_id) == IF user_id \in DOMAIN t THEN t[user_id].experience ELSE 0

AllowDuplicates(pack_id) == cfg.allow_duplicates /\ Packs[pack_id].allow_duplicates

\* The number of copies of card_id a roll newly grants
Granted(outcome, card_id) == Count(card_id, outcome.cards) - Count(card_id, outcome.duplicates)

RECURSIVE SumOver(_, _)
SumOver(S, f) ==
    IF S = {} THEN 0
    ELSE LET x == CHOOSE y \in S : TRUE IN f[x] + SumOver(S \ {x}, f)

\* What the cards of an outcome are worth in one currency, and in experience:
\* the full reward of each newly granted copy, the substitute of each duplicate.
OwedCurrency(outcome, code) ==
    LET owed == [c \in CardIds |->
                    Granted(outcome, c) * Get(Cards[c].reward.currencies, code)
                    + Count(c, outcome.duplicates) * Get(DuplicateHandle(c).currencies, code)]
    IN  SumOver(CardIds, owed)

OwedExperience(outcome) ==
    LET owed == [c \in CardIds |->
                    Granted(outcome, c) * Cards[c].reward.experience
                    + Count(c, outcome.duplicates) * DuplicateHandle(c).experience]
    IN  SumOver(CardIds, owed)

\* C2: a drop never raises the owned count of a capped card above max_copies:
\* of the copies of the card a roll draws, it grants as many as the cap still
\* allows and classifies the others as duplicates, which are not added.
C2_MaxCopiesDrop ==
    [][\A u \in Users, p \in PackIds : \A rs \in RngStreams(p) :
          (last'.pack = p /\ DropFromPack(u, p, rs)) =>
              \A c \in CardIds :
                  HasCap(c) =>
                      LET before == Get(StoredInventory(table, u), c)
                          after == Get(StoredInventory(table', u), c)
                      IN  /\ after >= before
                          /\ after > before => after <= Cap(c)
                          /\ last'.result = "ok"
                             => /\ after - before
                                      = Min2(Count(c, last'.cards), Max2(0, Cap(c) - before))
                                /\ Count(c, last'.duplicates)
                                      = Count(c, last'.cards) - (after - before)
      ]_vars

\* One roll drew the capped card twice: one copy granted, one duplicate.
C2_Witness ==
    /\ last.op = "drop_from_pack"
    /\ last.result = "ok"
    /\ last.cards = <<"alpha", "alpha">>
    /\ last.duplicates = <<"alpha">>
    /\ Get(StoredInventory(table, last.user), "alpha") = 1

\* C7: a drop of a player who is neither banned nor on cooldown fails with
\* NoCardsAvailable exactly when the pack has no cards, or duplicates are
\* disallowed (globally or by the pack) and the player owns every card of it.
C7_NoCardsAvailable ==
    [][\A u \in Users, p \in PackIds : \A rs \in RngStreams(p) :
          (last'.pack = p /\ DropFromPack(u, p, rs)) =>
              LET record == Rec(u)
                  cards == Packs[p].cards
              IN  (~record.is_banned /\ CooldownRemaining(record, UtcTs(now)) = 0)
                  => /\ (last'.result = "NoCardsAvailable")
                        <=> \/ cards = << >>
                            \/ /\ ~AllowDuplicates(p)
                               /\ \A i \in 1 .. Len(cards) : Get(record.inventory, cards[i]) > 0
                     /\ (AllowDuplicates(p) /\ cards # << >>)
                        => last'.result # "NoCardsAvailable"
      ]_vars

\* With duplicates disallowed a player who owns alpha and beta was refused.
C7_Witness ==
    /\ last.op = "drop_from_pack"
    /\ last.result = "NoCardsAvailable"
    /\ last.pack = "duo"
    /\ ~cfg.allow_duplicates
    /\ Get(StoredInventory(table, last.user), "alpha") > 0
    /\ Get(StoredInventory(table, last.user), "beta") > 0
    /\ Len(history) > 0

\* C8: the reward of a successful drop is the sum of the full rewards of the
\* newly granted cards and of the substitutes of the duplicates; every wallet
\* balance grows by the reward's amount of that currency, the experience by
\* the reward's experience, the count of each card by its newly granted copies.
C8_RewardAccounting ==
    [][\A u \in Users, p \in PackIds : \A rs \in RngStreams(p) :
          (last'.pack = p /\ last'.result = "ok" /\ DropFromPack(u, p, rs)) =>
              /\ \A code \in AllCodes :
                    /\ Get(last'.reward.currencies, code) = OwedCurrency(last', code)
                    /\ Get(StoredWallet(table', u), code)
                          = Get(StoredWallet(table, u), code) + Get(last'.reward.currencies, code)
              /\ DOMAIN last'.reward.currencies \subseteq AllCodes
              /\ DOMAIN StoredWallet(table', u) \subseteq AllCodes
              /\ last'.reward.experience = OwedExperience(last')
              /\ StoredExperience(table', u)
                    = StoredExperience(table, u) + last'.reward.experience
              /\ \A c \in CardIds :
                    Get(StoredInventory(table', u), c)
                       = Get(StoredInventory(table, u), c) + Granted(last', c)
      ]_vars

\* The first drop of a player from the pack of alpha alone: alpha's reward
\* in the outcome and in the wallet, one alpha in the inventory.
C8_Witness ==
    /\ last.op = "drop_from_pack"
    /\ last.result = "ok"
    /\ last.cards = <<"alpha">>
    /\ last.duplicates = << >>
    /\ Len(history) = 1
    /\ last.reward = Cards["alpha"].reward
    /\ StoredWallet(table, last.user) = Cards["alpha"].reward.currencies
    /\ StoredExperience(table, last.user) = Cards["alpha"].reward.experience
    /\ StoredInventory(table, last.user) = [c \in {"alpha"} |-> 1]

\* C3: no stored wallet holds a negative balance, whatever drops, credits,
\* spends and currency grants, completed or failed, came before.
C3_WalletNeverNegative ==
    \A u \in DOMAIN table :
        \A code \in DOMAIN table[u].wallet : table[u].wallet[code] >= 0

\* A drop of the card whose reward takes a coin away went through and left
\* the player without coins.
C3_Witness ==
    /\ last.op = "drop_from_pack"
    /\ last.result = "ok"
    /\ last.cards = <<"hex">>
    /\ Get(last.reward.currencies, "coins") < 0
    /\ Get(StoredWallet(table, last.user), "coins") = 0

\* The substitute the configured strategy pays for one duplicate of card_id,
\* read off the configuration: the flat amount of the dust currency, or the
\* card's own reward times duplicate_penalty.
SubstituteCurrency(card_id, code) ==
    IF cfg.strategy.kind = "dust"
    THEN IF code = cfg.strategy.currency /\ cfg.strategy.amount > 0
         THEN cfg.strategy.amount ELSE 0
    ELSE IF cfg.strategy.num <= 0 THEN 0
    ELSE TruncDiv(Get(Cards[card_id].reward.currencies, code) * cfg.strategy.num,
                  cfg.strategy.den)

\* A player at or over the cap of card_id draws only card_id from pack_id
OnlyDuplicatesOf(card_id, outcome) ==
    /\ outcome.cards # << >>
    /\ Range(outcome.cards) = {card_id}

\* C4 as stated: with duplicates disallowed, a drop of a player (not banned,
\* not on cooldown) who owns a card with max_copies = 1 from a pack with that
\* card reports it in duplicates, keeps the count at 1 and pays the substitute.
C4_Original ==
    [][\A u \in Users, p \in PackIds : \A rs \in RngStreams(p) :
       (last'.pack = p /\ DropFromPack(u, p, rs)) =>
       \A c \in CardIds :
          (/\ ~AllowDuplicates(p)
           /\ c \in Range(Packs[p].cards)
           /\ HasCap(c) /\ Cap(c) = 1
           /\ Get(StoredInventory(table, u), c) = 1
           /\ ~Rec(u).is_banned
           /\ CooldownRemaining(Rec(u), UtcTs(now)) = 0)
          => /\ last'.result = "ok"
             /\ c \in Range(last'.duplicates)
             /\ Get(StoredInventory(table', u), c) = 1
             /\ OnlyDuplicatesOf(c, last')
                => \A code \in AllCodes :
                      Get(StoredWallet(table', u), code)
                         = Get(StoredWallet(table, u), code)
                           + Len(last'.cards) * SubstituteCurrency(c, code)
      ]_vars

\* C4: with duplicates allowed (by the configuration and by the pack), a
\* successful drop that draws a card with max_copies = 1 for a player who
\* already owns it reports every drawn copy in duplicates, leaves the owned
\* count as it was, and pays the wallet the substitute of the configured
\* strategy for each copy (next to the rewards of the other cards drawn).
C4_DuplicateHandling ==
    [][\A u \in Users, p \in PackIds : \A rs \in RngStreams(p) :
       (last'.pack = p /\ last'.result = "ok" /\ DropFromPack(u, p, rs)) =>
       \A c \in CardIds :
          (/\ AllowDuplicates(p)
           /\ HasCap(c) /\ Cap(c) = 1
           /\ Get(StoredInventory(table, u), c) >= 1
           /\ c \in Range(last'.cards))
          => /\ Count(c, last'.duplicates) = Count(c, last'.cards)
             /\ Get(StoredInventory(table', u), c) = Get(StoredInventory(table, u), c)
             /\ \A code \in AllCodes :
                   Get(StoredWallet(table', u), code)
                      = Get(StoredWallet(table, u), code)
                        + Count(c, last'.cards) * SubstituteCurrency(c, code)
                        + OwedCurrency([last' EXCEPT !.cards = SelectSeq(@, LAMBDA d : d # c),
                                                     !.duplicates = SelectSeq(@, LAMBDA d : d # c)],
                                       code)
      ]_vars

\* The second drop of a player from the pack of alpha alone, under the flat
\* dust strategy: alpha is a duplicate, still owned once, and paid in dust.
C4_Witness ==
    /\ last.op = "drop_from_pack"
    /\ last.result = "ok"
    /\ last.pack = "starters"
    /\ last.cards = <<"alpha">>
    /\ last.duplicates = <<"alpha">>
    /\ cfg.allow_duplicates
    /\ cfg.strategy.kind = "dust"
    /\ Len(RecordsOf(history, last.user)) = 2
    /\ Get(StoredInventory(table, last.user), "alpha") = 1
    /\ Get(StoredWallet(table, last.user), "dust") = cfg.strategy.amount

\* C5 as stated: add_card and grant_card never leave more than max_copies
\* copies of a capped card in the inventory, and at the cap they fail with
\* NoCardsAvailable and leave the inventory as it was.
C5_GrantsRespectCap ==
    [][\A u \in Users, c \in CardIds, q \in Quantities :
          ((AddCard(u, c, q) \/ GrantCard(u, c, q)) /\ HasCap(c) /\ q > 0)
          => /\ Get(StoredInventory(table', u), c) <= Cap(c)
             /\ Get(StoredInventory(table, u), c) >= Cap(c)
                => /\ last'.result = "NoCardsAvailable"
                   /\ StoredInventory(table', u) = StoredInventory(table, u)
      ]_vars

\* The latest ban or unban of user_id the audit log records
RECURSIVE LatestBanAction(_, _)
LatestBanAction(log, user_id) ==
    IF log = << >> THEN "none"
    ELSE LET e == log[Len(log)] IN
         IF e.user_id = user_id /\ e.action \in {"ban", "unban"} THEN e.action
         ELSE LatestBanAction(SubSeq(log, 1, Len(log) - 1), user_id)

\* C6 as stated: once ban_user(u) has completed and until unban_user(u)
\* completes, is_banned(u) answers true and drop_from_pack(u, ...) fails with
\* PlayerBanned; after unban_user(u), is_banned(u) answers false and no drop
\* fails with PlayerBanned.  With either store, with or without a record.
C6_BanGate ==
    \A u \in Users :
        /\ LatestBanAction(audit, u) = "ban"
           => /\ (last.op = "is_banned" /\ last.user = u) => last.flag
              /\ (last.op = "drop_from_pack" /\ last.user = u)
                 => last.result = "PlayerBanned"
        /\ LatestBanAction(audit, u) = "unban"
           => /\ (last.op = "is_banned" /\ last.user = u) => ~last.flag
              /\ (last.op = "drop_from_pack" /\ last.user = u)
                 => last.result # "PlayerBanned"

\* C9: spend and credit raise ValueError for an amount <= 0, spend raises
\* InsufficientCurrency for more than the balance, and in both cases the
\* stored wallet is left as it was; otherwise the one balance moves by the
\* amount and the others stay.
C9_SpendCreditValidation ==
    [][\A u \in Users, c \in CurrencyCodes, a \in Amounts :
          LET before == StoredWallet(table, u)
              after == StoredWallet(table', u)
              others == \A code \in AllCodes \ {c} : Get(after, code) = Get(before, code)
          IN  /\ (last'.op = "spend" /\ Spend(u, c, a))
                 => /\ (last'.result = "ValueError") <=> (a <= 0)
                    /\ (last'.result = "InsufficientCurrency")
                          <=> (a > 0 /\ Get(before, c) < a)
                    /\ last'.result \in {"ValueError", "InsufficientCurrency", "ok"}
                    /\ last'.result # "ok" => after = before
                    /\ last'.result = "ok"
                          => Get(after, c) = Get(before, c) - a /\ others
              /\ (last'.op = "credit" /\ Credit(u, c, a))
                 => /\ (last'.result = "ValueError") <=> (a <= 0)
                    /\ last'.result \in {"ValueError", "ok"}
                    /\ last'.result # "ok" => after = before
                    /\ last'.result = "ok"
                          => Get(after, c) = Get(before, c) + a /\ others
      ]_vars

\* A spend of more than the player holds was refused, the coin still there.
C9_Witness ==
    /\ last.op = "spend"
    /\ last.result = "InsufficientCurrency"
    /\ Get(StoredWallet(table, last.user), "coins") = 1

\* ------------------------------------------------------------------------
\* Timestamps with and without tzinfo
\* ------------------------------------------------------------------------
\* The timestamps set_cooldown is handed here: the epoch of the model, the
\* reading of the clock or one a second ahead of it, as UTC, naive, or in
\* the zone one second east of UTC.
ZonedInputs ==
    [wall : {0, now, now + TicksPerSecond}, tz : {"utc", "naive", "plus1"}]

SetCooldownZonedStep == \E u \in Users, ts \in ZonedInputs : SetCooldown(u, ts)

ZonesConfigs == {c \in Configs : /\ c.store = "memory"
                                 /\ c.allow_duplicates
                                 /\ c.max_cards_per_drop = 1
                                 /\ c.strategy.kind = "penalty" /\ c.strategy.num = 0}

InitZones == InitWith(ZonesConfigs)

ZonesDrop == DropOn({"starters"})

NextZones ==
    \/ SetCooldownZonedStep
    \/ CooldownRemainingStep
    \/ ZonesDrop
    \/ Tick

SpecZones == InitZones /\ [][NextZones]_vars

\* The record with its last_drop_at replaced
WithLastDrop(record, ts) == [record EXCEPT !.last_drop_at = ts]

\* C11: a naive last_drop_at gives the remaining cooldown of the same reading
\* stored as UTC; one carrying the offset of one second gives that of the UTC
\* reading one second earlier; and cooldown_remaining and the gate of
\* drop_from_pack answer with that value.
C11_UtcNormalized ==
    [][\A u \in Users :
          LET record == Rec(u)
              ts == record.last_drop_at
              nowTs == UtcTs(now)
              asUtc == IF ts.tz = "plus1" THEN UtcTs(ts.wall - TicksPerSecond)
                       ELSE UtcTs(ts.wall)
              remaining == Max2(0, cfg.base_cooldown_seconds
                                     - TruncDiv(now - asUtc.wall, TicksPerSecond))
          IN  ts # NoneTs =>
                 /\ CooldownRemaining(record, nowTs)
                       = CooldownRemaining(WithLastDrop(record, asUtc), nowTs)
                 /\ CooldownRemaining(record, nowTs) = remaining
                 /\ (last'.op = "cooldown_remaining" /\ CooldownRemainingOf(u))
                       => last'.remaining = remaining
                 /\ \A p \in PackIds : \A rs \in RngStreams(p) :
                       (last'.pack = p /\ DropFromPack(u, p, rs))
                       => /\ (last'.result = "CooldownActive") <=> (remaining > 0)
                          /\ last'.result = "CooldownActive" => last'.remaining = remaining
      ]_vars

\* cooldown_remaining answered 0 for a naive last_drop_at one cooldown old.
C11_Witness ==
    /\ last.op = "cooldown_remaining"
    /\ last.user \in DOMAIN table
    /\ table[last.user].last_drop_at = [wall |-> now - TicksPerSecond, tz |-> "naive"]
    /\ cfg.base_cooldown_seconds = 1
    /\ last.remaining = 0

\* ------------------------------------------------------------------------
\* drop_from_pack as the event loop runs it with the relational store: the
\* coroutine is suspended in get_or_create, in save, in add_record and in
\* publish, and another call may run at each of these points.  Between the
\* return of get_or_create and the call of save nothing is awaited, so the
\* gates, the draw and the rewards are one step with the read.
\* ------------------------------------------------------------------------
InFlight == {k \in Tasks : inflight[k].phase # "idle"}

\* get_or_create returns; the call runs up to its await of save (or raises).
DropRead(k, user_id, pack_id, rs) ==
    LET t0 == GetOrCreate(table, user_id)
        record == t0[user_id]
        nowTs == UtcTs(now)
        remaining == CooldownRemaining(record, nowTs)
        pack == Packs[pack_id]
        allow_duplicates == cfg.allow_duplicates /\ pack.allow_duplicates
        eligible == FilterCards(pack.cards, record, allow_duplicates)
        draw_count == Min2(Min2(pack.max_per_roll, cfg.max_cards_per_drop), Len(eligible))
        drawn_cards == DrawCards(pack, eligible, draw_count, allow_duplicates, rs)
        loop == DropLoop(drawn_cards, record.inventory, EmptyReward, << >>, allow_duplicates)
        wallet == WalletMerge(record.wallet, loop.reward.currencies)
        saved == [record EXCEPT !.inventory = loop.inventory,
                                !.wallet = wallet.balances,
                                !.experience = @ + loop.reward.experience,
                                !.last_drop_at = nowTs]
        fail(result, rem) ==
            /\ last' = [Call("drop_from_pack", user_id, result) EXCEPT
                           !.pack = pack_id, !.remaining = rem]
            /\ UNCHANGED inflight
    IN  /\ cfg.store = "sql"
        /\ inflight[k].phase = "idle"
        /\ DropsCompleted + Cardinality(InFlight) < MaxHistory
        /\ table' = t0
        /\ IF record.is_banned THEN fail("PlayerBanned", 0)
           ELSE IF remaining > 0 THEN fail("CooldownActive", remaining)
           ELSE IF eligible = << >> THEN fail("NoCardsAvailable", 0)
           ELSE IF loop.reward.currencies # EmptyMap
                   /\ ~EnsureCodes(DOMAIN loop.reward.currencies)
                THEN fail("KeyError", 0)
           ELSE IF ~wallet.ok THEN fail("ValueError", 0)
           ELSE /\ inflight' = [inflight EXCEPT ![k] =
                                   [phase |-> "saving", user |-> user_id, pack |-> pack_id,
                                    read |-> record, saved |-> saved, cards |-> drawn_cards,
                                    duplicates |-> loop.duplicates, reward |-> loop.reward,
                                    at |-> nowTs]]
                /\ UNCHANGED last
        /\ UNCHANGED <<cfg, standalone, now, history, audit, published>>

\* A save that writes only if the row is still the one the call read
DropSaveIfUnchanged(k) ==
    LET call == inflight[k] IN
    /\ call.phase = "saving"
    /\ IF call.user \in DOMAIN table /\ table[call.user] = call.read
       THEN /\ table' = Save(table, call.user, call.saved)
            /\ inflight' = [inflight EXCEPT ![k].phase = "recording"]
       ELSE /\ inflight' = [inflight EXCEPT ![k] = NoTask]
            /\ UNCHANGED table
    /\ UNCHANGED <<cfg, standalone, now, history, audit, published, last>>

\* save: the UPDATE of the whole row with the values of the call's record
DropSave(k) ==
    LET call == inflight[k] IN
    /\ call.phase = "saving"
    /\ table' = Save(table, call.user, call.saved)
    /\ inflight' = [inflight EXCEPT ![k].phase = "recording"]
    /\ UNCHANGED <<cfg, standalone, now, history, audit, published, last>>

\* add_record, publish, and the return of the outcome
DropReturn(k) ==
    LET call == inflight[k] IN
    /\ call.phase = "recording"
    /\ history' = DequeAppend(history, cfg.history_maxlen,
                      [user_id |-> call.user, card_ids |-> call.cards,
                       timestamp |-> call.at, rewards |-> call.reward.currencies])
    /\ published' = Append(published,
                      [name |-> "player.drop.completed", user_id |-> call.user])
    /\ last' = [Call("drop_from_pack", call.user, "ok") EXCEPT
                   !.pack = call.pack, !.cards = call.cards,
                   !.duplicates = call.duplicates, !.reward = call.reward,
                   !.next_drop_at =
                       UtcTs(call.at.wall + cfg.base_cooldown_seconds * TicksPerSecond)]
    /\ inflight' = [inflight EXCEPT ![k] = NoTask]
    /\ UNCHANGED <<cfg, standalone, now, table, audit>>

\* add_record alone: the call then awaits publish
DropRecord(k) ==
    LET call == inflight[k] IN
    /\ call.phase = "recording"
    /\ history' = DequeAppend(history, cfg.history_maxlen,
                      [user_id |-> call.user, card_ids |-> call.cards,
                       timestamp |-> call.at, rewards |-> call.reward.currencies])
    /\ inflight' = [inflight EXCEPT ![k].phase = "publishing"]
    /\ UNCHANGED <<cfg, standalone, now, table, audit, published, last>>

\* A publish whose exceptions do not reach the caller of the drop
DropPublishQuietly(k, how) ==
    LET call == inflight[k]
        name == "player.drop.completed"
        run == Deliver(ListenersOf(listeners, name), listeners, name, how)
    IN  /\ call.phase = "publishing"
        /\ Subscriptions(run.listeners, EventNames) <= MaxListeners
        /\ published' = Append(published, [name |-> name, user_id |-> call.user])
        /\ listeners' = run.listeners
        /\ delivery' = [name |-> name, invoked |-> run.invoked, result |-> run.result]
        /\ last' = [Call("drop_from_pack", call.user, "ok") EXCEPT
                       !.pack = call.pack, !.cards = call.cards,
                       !.duplicates = call.duplicates, !.reward = call.reward,
                       !.next_drop_at =
                           UtcTs(call.at.wall + cfg.base_cooldown_seconds * TicksPerSecond)]
        /\ inflight' = [inflight EXCEPT ![k] = NoTask]
        /\ UNCHANGED <<cfg, now, table, history, audit, registries, validator, transport, draw>>

\* publish with the listeners subscribed, then the return of the outcome, or
\* the exception of a listener
DropPublish(k, how) ==
    LET call == inflight[k]
        name == "player.drop.completed"
        run == Deliver(ListenersOf(listeners, name), listeners, name, how)
    IN  /\ call.phase = "publishing"
        /\ Subscriptions(run.listeners, EventNames) <= MaxListeners
        /\ published' = Append(published, [name |-> name, user_id |-> call.user])
        /\ listeners' = run.listeners
        /\ delivery' = [name |-> name, invoked |-> run.invoked, result |-> run.result]
        /\ last' = IF run.result = "raised"
                   THEN [Call("drop_from_pack", call.user, "ListenerError") EXCEPT
                            !.pack = call.pack]
                   ELSE [Call("drop_from_pack", call.user, "ok") EXCEPT
                            !.pack = call.pack, !.cards = call.cards,
                            !.duplicates = call.duplicates, !.reward = call.reward,
                            !.next_drop_at =
                                UtcTs(call.at.wall + cfg.base_cooldown_seconds * TicksPerSecond)]
        /\ inflight' = [inflight EXCEPT ![k] = NoTask]
        /\ UNCHANGED <<cfg, now, table, history, audit, registries, validator, transport, draw>>

DropReadStep ==
    \E k \in Tasks, u \in Users, p \in {"duo"} : \E rs \in RngStreams(p) : DropRead(k, u, p, rs)

DropSaveStep == \E k \in Tasks : DropSave(k)

DropReturnStep == \E k \in Tasks : DropReturn(k)

RaceConfigs == {c \in Configs : /\ c.store = "sql"
                                /\ c.base_cooldown_seconds = 1
                                /\ c.allow_duplicates
                                /\ c.max_cards_per_drop = 1
                                /\ c.strategy.kind = "penalty" /\ c.strategy.num = 0}

InitRace == InitWith(RaceConfigs)

NextRace ==
    \/ DropReadStep
    \/ DropSaveStep
    \/ DropReturnStep
    \/ Tick

SpecRace == InitRace /\ [][NextRace]_vars

\* C12: nothing orders two calls for one user.  A call passes its gates on
\* the row as stored when it reads, whatever other call is in flight; and
\* its save leaves in the row what it read plus its own cards and rewards,
\* and nothing of what another call saved since (last write wins).
C12_LastWriteWins ==
    [][/\ \A k \in Tasks, u \in Users, p \in PackIds : \A rs \in RngStreams(p) :
             DropRead(k, u, p, rs) =>
                 LET record == Rec(u) IN
                 /\ (inflight'[k].phase = "saving")
                       <=> /\ ~record.is_banned
                           /\ CooldownRemaining(record, UtcTs(now)) = 0
                           /\ last' = last
                 /\ inflight'[k].phase = "saving" => inflight'[k].read = record
       /\ \A k \in Tasks :
             DropSave(k) =>
                 LET call == inflight[k]
                     row == table'[call.user]
                 IN  /\ \A c \in CardIds :
                           Get(row.inventory, c) = Get(call.read.inventory, c) + Granted(call, c)
                     /\ \A code \in AllCodes :
                           Get(row.wallet, code)
                              = Get(call.read.wallet, code) + Get(call.reward.currencies, code)
                     /\ row.experience = call.read.experience + call.reward.experience
                     /\ row.last_drop_at = call.at
                     /\ row.is_banned = call.read.is_banned
      ]_vars

\* Two drops of one user have returned, less than the cooldown apart, and
\* the card one of them drew is not in the stored inventory.
C12_Witness ==
    /\ InFlight = {}
    /\ Len(history) = 2
    /\ history[1].user_id = history[2].user_id
    /\ history[2].timestamp.wall - history[1].timestamp.wall
          < cfg.base_cooldown_seconds * TicksPerSecond
    /\ history[1].timestamp.wall - history[2].timestamp.wall
          < cfg.base_cooldown_seconds * TicksPerSecond
    /\ \E i \in 1 .. 2 : \E c \in Range(history[i].card_ids) :
          Get(StoredInventory(table, history[i].user_id), c) = 0

\* ------------------------------------------------------------------------
\* EventBus on its own: subscribe, publish, clear
\* ------------------------------------------------------------------------
StandaloneConfigs == {c \in Configs : /\ c.store = "memory"
                                      /\ c.base_cooldown_seconds = 0
                                      /\ c.allow_duplicates
                                      /\ c.max_cards_per_drop = 1
                                      /\ c.strategy.kind = "penalty" /\ c.strategy.num = 0}

InitBus == InitWith(StandaloneConfigs)

NextBus ==
    \/ BusSubscribeStep
    \/ BusPublishStep
    \/ BusClear

SpecBus == InitBus /\ [][NextBus]_vars

\* The positions, in the list subs, of the listeners that raise
Raisers(subs, how) == {i \in 1 .. Len(subs) : how[subs[i]] = "raise"}

\* C13: publish(name, payload) awaits the listeners subscribed to name when
\* it is called, once per subscription and in the order of subscription, up
\* to and including the first one that raises; the exception then reaches
\* the publisher and the listeners after it are not awaited.  No listener
\* is awaited for a subscription to another name, and the subscriptions to
\* the other names are left as they were.
C13_PublishDelivery ==
    [][\A n \in EventNames, how \in [ListenerIds -> Behaviours] :
          (delivery'.name = n /\ BusPublish(n, how)) =>
              LET subs == ListenersOf(listeners, n)
                  raisers == Raisers(subs, how)
                  stop == IF raisers = {} THEN Len(subs)
                          ELSE CHOOSE i \in raisers : \A j \in raisers : i <= j
              IN  /\ delivery'.invoked = SubSeq(subs, 1, stop)
                  /\ delivery'.result = (IF raisers = {} THEN "ok" ELSE "raised")
                  /\ \A m \in EventNames \ {n} :
                         ListenersOf(listeners', m) = ListenersOf(listeners, m)]_vars

\* A publish that a raising listener cut short: two listeners awaited, a
\* third subscription of the same name left out, and a listener of another
\* name not awaited either.
C13_Witness ==
    /\ delivery.result = "raised"
    /\ Len(delivery.invoked) = 2
    /\ delivery.invoked[1] # delivery.invoked[2]
    /\ Len(ListenersOf(listeners, delivery.name)) = 3
    /\ \E m \in EventNames \ {delivery.name} : ListenersOf(listeners, m) # << >>

\* ------------------------------------------------------------------------
\* CardCatalog on its own
\* ------------------------------------------------------------------------
InitCatalog == InitWith(StandaloneConfigs)

NextCatalog ==
    \/ RegisterCardStep
    \/ RegisterCardsStep
    \/ GetCardStep
    \/ RegisterPackStep
    \/ GetPackStep

SpecCatalog == InitCatalog /\ [][NextCatalog]_vars

\* Every entry of the registry before is in the registry after, unchanged
Kept(before, after) ==
    \A id \in DOMAIN before : id \in DOMAIN after /\ after[id] = before[id]

\* C14: register_card and register_pack raise ValueError for an id that is
\* registered and leave the catalog as it was, and store the entity under
\* a new id; get_card and get_pack raise KeyError exactly for the ids not
\* registered and return the stored entity otherwise; and no step removes
\* or replaces an entry, so an id resolves to the first entity registered
\* under it.
C14_CatalogRegistry ==
    [][/\ \A card \in CatalogCards :
             (answer'.op = "register_card" /\ RegisterCard(card)) =>
                 IF card.card_id \in DOMAIN catalog.cards
                 THEN answer'.result = "ValueError" /\ catalog' = catalog
                 ELSE /\ answer'.result = "ok"
                      /\ catalog'.cards[card.card_id] = card
                      /\ DOMAIN catalog'.cards = DOMAIN catalog.cards \cup {card.card_id}
       /\ \A pack \in CatalogPacks :
             (answer'.op = "register_pack" /\ RegisterPack(pack)) =>
                 IF pack.pack_id \in DOMAIN catalog.packs
                 THEN answer'.result = "ValueError" /\ catalog' = catalog
                 ELSE /\ answer'.result = "ok"
                      /\ catalog'.packs[pack.pack_id] = pack
                      /\ DOMAIN catalog'.packs = DOMAIN catalog.packs \cup {pack.pack_id}
       /\ \A card_id \in LookupCardIds :
             (answer'.op = "get_card" /\ GetCard(card_id)) =>
                 /\ catalog' = catalog
                 /\ IF card_id \in DOMAIN catalog.cards
                    THEN answer'.result = "ok" /\ answer'.value = <<catalog.cards[card_id]>>
                    ELSE answer'.result = "KeyError"
       /\ \A pack_id \in LookupPackIds :
             (answer'.op = "get_pack" /\ GetPack(pack_id)) =>
                 /\ catalog' = catalog
                 /\ IF pack_id \in DOMAIN catalog.packs
                    THEN answer'.result = "ok" /\ answer'.value = <<catalog.packs[pack_id]>>
                    ELSE answer'.result = "KeyError"
       /\ Kept(catalog.cards, catalog'.cards)
       /\ Kept(catalog.packs, catalog'.packs)]_vars

\* register_card was refused for an id the catalog holds, with both cards
\* and packs registered.
C14_Witness ==
    /\ answer.op = "register_card"
    /\ answer.result = "ValueError"
    /\ answer.key \in DOMAIN catalog.cards
    /\ DOMAIN catalog.cards = {"alpha", "beta"}
    /\ catalog.packs # EmptyMap

\* ------------------------------------------------------------------------
\* The validator and the loader on the documents explored
\* ------------------------------------------------------------------------
InitValidator ==
    /\ InitServices(StandaloneConfigs)
    /\ TasksIdle /\ BusIdle /\ RegistriesIdle /\ TransportIdle /\ DrawIdle
    /\ \E faults \in FaultChoices : document = Faulty(SampleDocument, faults)
    /\ errors = << >>

NextValidator ==
    \/ Validate
    \/ LoadCatalogFromJson

SpecValidator == InitValidator /\ [][NextValidator]_vars

\* errors holds what validate_catalog_dict returns for the document
Validated == answer.op \in {"validate_catalog_dict", "load_catalog_from_json"}

\* Some error of the list is of this rule, about this subject and detail
Reported(rule, subject, detail) ==
    \E i \in DOMAIN errors : /\ errors[i].rule = rule
                             /\ errors[i].subject = subject
                             /\ errors[i].detail = detail

\* What the document declares
DeclaredCodes(data) ==
    {data.currencies[i].code : i \in {j \in DOMAIN data.currencies :
                                         data.currencies[j].object /\ data.currencies[j].code # ""}}

DeclaredCardIds(data) ==
    {data.cards[i].id : i \in {j \in DOMAIN data.cards :
                                  data.cards[j].object /\ data.cards[j].id # ""}}

\* Two pack entries of the document carry the same non-empty id
RepeatedPackId(data) ==
    \E i, j \in DOMAIN data.packs :
        /\ i < j
        /\ data.packs[i].object /\ data.packs[j].object
        /\ data.packs[i].id # ""
        /\ data.packs[i].id = data.packs[j].id

\* C15: a document in which two pack entries carry the same non-empty id
\* gets a non-empty error list from validate_catalog_dict, and the loader
\* never fails on a pack id for a document that validated clean.
C15_PackIdsUnique ==
    /\ (Validated /\ RepeatedPackId(document)) => errors # << >>
    /\ (answer.op = "load_catalog_from_json" /\ errors = << >>) =>
           ~(answer.result = "ValueError" /\ answer.key \in LookupPackIds)

\* C16: for a document that declares no currency coded 'coins' (the
\* currencies array missing or empty, or none of its entries an object with
\* that code), the error list holds the "Currency 'coins' must be defined"
\* entry.
C16_CoinsAlwaysRequired ==
    (Validated /\ "coins" \notin DeclaredCodes(document)) =>
        Reported("currency.coins", "coins", "")

Broken(condition, error) == IF condition THEN {error} ELSE {}

\* The rules of a card's reward and image that the document breaks: every
\* card entry with an id whose reward is no object, whose reward names a
\* currency the document does not declare or a negative amount, or whose
\* image is no object or defines neither url nor local.
CardViolations(data) ==
    UNION {LET entry == data.cards[i]
               reward == entry.reward
               image == entry.image
           IN  IF ~entry.object \/ entry.id = "" THEN {}
               ELSE Broken(~reward.object, Err("card.reward", 0, entry.id, ""))
                    \cup {Err("card.currency.unknown", 0, entry.id, code) :
                             code \in {c \in DOMAIN reward.currencies :
                                          reward.object /\ c \notin DeclaredCodes(data)}}
                    \cup {Err("card.currency.amount", 0, entry.id, code) :
                             code \in {c \in DOMAIN reward.currencies :
                                          reward.object /\ reward.currencies[c] < 0}}
                    \cup Broken(image.kind = "other", Err("card.image.object", 0, entry.id, ""))
                    \cup Broken(/\ image.kind = "object"
                                /\ image.url = "absent"
                                /\ image.local = "absent",
                                Err("card.image.either", 0, entry.id, ""))
           : i \in DOMAIN data.cards}

\* C17: every rule the document breaks has its error in the list that one
\* call of validate_catalog_dict returns, whatever else the document breaks
\* (stated for the rules of CardViolations).
C17_NoShortCircuit ==
    Validated => \A v \in CardViolations(document) : Reported(v.rule, v.subject, v.detail)

\* C18: when validate_catalog_dict returns an empty list, the document
\* declares 'coins', its currency codes and its card ids are pairwise
\* distinct, every card reward has 'coins' among its currencies and only
\* declared codes, and every card id in a pack's cards and every key of
\* its cardWeights is the id of a card of the document.
C18_CleanIsConsistent ==
    (Validated /\ errors = << >>) =>
        /\ "coins" \in DeclaredCodes(document)
        /\ \A i, j \in DOMAIN document.currencies :
               i # j => document.currencies[i].code # document.currencies[j].code
        /\ \A i, j \in DOMAIN document.cards :
               i # j => document.cards[i].id # document.cards[j].id
        /\ \A i \in DOMAIN document.cards :
               /\ "coins" \in DOMAIN document.cards[i].reward.currencies
               /\ DOMAIN document.cards[i].reward.currencies \subseteq DeclaredCodes(document)
        /\ \A i \in DOMAIN document.packs :
               /\ Members(document.packs[i].cards) \subseteq DeclaredCardIds(document)
               /\ DOMAIN document.packs[i].cardWeights.weights \subseteq DeclaredCardIds(document)

\* A document other than the well-formed one, with per-card weights in a
\* pack, validated clean and loaded into the catalog.
C18_Witness ==
    /\ answer.op = "load_catalog_from_json"
    /\ answer.result = "ok"
    /\ errors = << >>
    /\ document.packs[1].cardWeights.kind = "dict"
    /\ DOMAIN catalog.packs = {"starters", "duo"}

\* ------------------------------------------------------------------------
\* AdminService with its audit store, with either player store
\* ------------------------------------------------------------------------
InitAdmin == InitWith(GrantsConfigs)

NextAdmin ==
    \/ BanUserStep
    \/ UnbanUserStep
    \/ GrantCurrencyStep
    \/ GrantCardStep
    \/ AdjustExperienceStep
    \/ SetCooldownStep
    \/ Tick

SpecAdmin == InitAdmin /\ [][NextAdmin]_vars

\* The step appended this one entry to the audit store, stamped with the
\* UTC clock
Audited(action, user_id, key, amount, ts) ==
    audit' = Append(audit, [action |-> action, timestamp |-> [wall |-> now, tz |-> "utc"],
                            user_id |-> user_id, key |-> key, amount |-> amount, ts |-> ts])

\* Of the calls the operation awaited, exactly one wrote the audit entry;
\* the write of the player record came before it and every publish after.
AuditInOrder(effects) ==
    \E i \in DOMAIN effects :
        /\ effects[i] = "add_entry"
        /\ \A j \in DOMAIN effects \ {i} : effects[j] # "add_entry"
        /\ \E j \in DOMAIN effects : effects[j] \in {"save", "mark_banned"}
        /\ \A j \in DOMAIN effects :
               /\ effects[j] \in {"save", "mark_banned"} => j < i
               /\ effects[j] = "publish" => j > i

\* The step wrote no audit entry, no player record and no event
Untouched ==
    /\ audit' = audit
    /\ table' = table
    /\ published' = published
    /\ \A j \in DOMAIN last'.effects : last'.effects[j] \notin {"add_entry", "save", "publish"}

DropsCompletedBy(user_id) ==
    Cardinality({i \in DOMAIN published : /\ published[i].name = "player.drop.completed"
                                          /\ published[i].user_id = user_id})

ExperienceConfigs == {c \in Configs : /\ c.store = "memory"
                                      /\ c.base_cooldown_seconds = 0
                                      /\ c.allow_duplicates
                                      /\ c.max_cards_per_drop = 1
                                      /\ c.strategy.kind = "penalty" /\ c.strategy.num = 0}

InitExperience == InitWith(ExperienceConfigs)

ExperienceDrop == DropOn({"starters", "leech"})

NextExperience ==
    \/ ExperienceDrop
    \/ GrantExperienceStep
    \/ AdjustExperienceStep
    \/ FetchStep

SpecExperience == InitExperience /\ [][NextExperience]_vars

\* C21: the experience of every stored player is >= 0 after any sequence of
\* grant_experience, adjust_experience and drop_from_pack calls; a grant or
\* an adjustment of amount a stores max(0, old + a), and a grant of 0 stores
\* the record as it was.
C21_ExperienceNeverNegative ==
    [][/\ \A u \in DOMAIN table' : table'[u].experience >= 0
       /\ \A u \in Users, a \in XpAmounts :
             (last'.op = "grant_experience" /\ GrantExperience(u, a)) =>
                 /\ table'[u].experience = Max2(0, Rec(u).experience + a)
                 /\ a = 0 => table'[u] = Rec(u)
       /\ \A u \in Users, a \in XpAmounts :
             (last'.op = "adjust_experience" /\ AdjustExperience(u, a)) =>
                 table'[u].experience = Max2(0, Rec(u).experience + a)
      ]_vars

\* ------------------------------------------------------------------------
\* The messaging transport
\* ------------------------------------------------------------------------
InitTransport == InitWith(StandaloneConfigs)

NextTransport ==
    \/ SafeApiCallStep
    \/ ApiAttemptStep
    \/ ApiSleep

\* An awaited func and an awaited asyncio.sleep come back: the event loop
\* resumes the coroutine, which then runs to its next await or to its return.
SpecTransport ==
    /\ InitTransport
    /\ [][NextTransport]_vars
    /\ WF_vars(ApiAttemptStep)
    /\ WF_vars(ApiSleep)

\* C22: safe_api_call comes to its return, whatever func does: it returns
\* the value of the first await of func that succeeds; it returns None at
\* once, without sleeping or awaiting func again, when func raises a
\* forbidden, bad-request or any other error; when func raises retry-after it
\* sleeps (retry_after seconds, 1 second for none) and awaits func again,
\* unless this was the retries-th await (or retries < 1), when it returns
\* None: func is awaited at least once and at most max(1, retries) times.
C22_SafeApiCall ==
    /\ [][/\ \A outcome \in ApiOutcomes :
             ApiAttempt(outcome) =>
                 /\ transport.invoked = Len(transport.delays)
                 /\ transport.invoked > 0 => transport.outcome = "retry_after"
                 /\ transport'.invoked = transport.invoked + 1
                 /\ transport'.delays = transport.delays
                 /\ outcome.kind = "return"
                    => /\ transport'.pc = "done"
                       /\ transport'.returned = "value"
                       /\ transport'.value = outcome.value
                 /\ outcome.kind \in ApiErrors
                    => /\ transport'.pc = "done"
                       /\ transport'.returned = "None"
                 /\ outcome.kind = "retry_after"
                    => IF transport'.invoked < transport.retries
                       THEN /\ transport'.pc = "sleeping"
                            /\ transport'.delay = (IF outcome.retry_after = 0 THEN 1
                                                   ELSE outcome.retry_after)
                       ELSE /\ transport'.pc = "done"
                            /\ transport'.returned = "None"
          /\ ApiSleep => /\ transport'.pc = "calling"
                         /\ transport'.invoked = transport.invoked
          /\ transport'.invoked <= Max2(1, transport'.retries)
          /\ transport'.pc = "done"
             => /\ transport'.invoked >= 1
                /\ transport'.returned \in {"value", "None"}
          ]_vars
    /\ (transport.pc \in {"calling", "sleeping"}) ~> (transport.pc = "done")

\* With the default three retries, func raised retry-after three times: two
\* sleeps, three awaits, None.
C22_Witness ==
    /\ transport.pc = "done"
    /\ transport.retries = MaxRetries
    /\ transport.invoked = MaxRetries
    /\ Len(transport.delays) = MaxRetries - 1
    /\ transport.outcome = "retry_after"
    /\ transport.returned = "None"

\* ------------------------------------------------------------------------
\* The roll
\* ------------------------------------------------------------------------
\* Drops from packs of two cards, with and without duplicates and with one
\* or two cards to the roll, and add_card for the cards owned beforehand.
RollConfigs == {c \in Configs : /\ c.store = "memory"
                                 /\ c.base_cooldown_seconds = 0
                                 /\ c.strategy.kind = "penalty" /\ c.strategy.num = 0}

InitRoll == InitWith(RollConfigs)

RollDrop == DropOn({"duo", "strict", "twins"})

NextRoll ==
    \/ RollDrop
    \/ AddCardStep

SpecRoll == InitRoll /\ [][NextRoll]_vars

\* The eligible cards of a drop of user_id from pack_id
Eligible(user_id, pack_id) ==
    FilterCards(Packs[pack_id].cards, Rec(user_id), AllowDuplicates(pack_id))

\* The size of a roll
RollSize(user_id, pack_id) ==
    Min2(Min2(Packs[pack_id].max_per_roll, cfg.max_cards_per_drop),
         Len(Eligible(user_id, pack_id)))

PairwiseDistinct(seq) == \A i, j \in 1 .. Len(seq) : i # j => seq[i] # seq[j]

\* C23 as stated: with duplicates disallowed the cards of a roll are
\* pairwise distinct, whatever the pack.
C23_Original ==
    [][\A u \in Users, p \in PackIds : \A rs \in RngStreams(p) :
          (last'.pack = p /\ last'.result = "ok" /\ DropFromPack(u, p, rs)) =>
              /\ Len(last'.cards) = RollSize(u, p)
              /\ Range(last'.cards) \subseteq Range(Eligible(u, p))
              /\ ~AllowDuplicates(p) => PairwiseDistinct(last'.cards)
      ]_vars

\* C23: a successful drop returns min(max_per_roll, max_cards_per_drop,
\* number of eligible cards) cards, each one of the eligible list; with
\* duplicates disallowed they are drawn without replacement, so no card comes
\* more often than the eligible list holds it, and the cards are pairwise
\* distinct when the pack lists no card twice.
C23_RollSize ==
    [][\A u \in Users, p \in PackIds : \A rs \in RngStreams(p) :
          (last'.pack = p /\ last'.result = "ok" /\ DropFromPack(u, p, rs)) =>
              /\ Len(last'.cards) = RollSize(u, p)
              /\ Range(last'.cards) \subseteq Range(Eligible(u, p))
              /\ ~AllowDuplicates(p)
                 => /\ \A c \in CardIds :
                          Count(c, last'.cards) <= Count(c, Eligible(u, p))
                    /\ PairwiseDistinct(Packs[p].cards) => PairwiseDistinct(last'.cards)
      ]_vars

\* With duplicates disallowed a roll of two drew beta ahead of alpha.
C23_Witness ==
    /\ last.op = "drop_from_pack"
    /\ last.result = "ok"
    /\ last.pack = "strict"
    /\ ~AllowDuplicates("strict")
    /\ last.cards = <<"beta", "alpha">>
    /\ last.duplicates = << >>

\* sub is seq with some of its elements left out
RECURSIVE IsSubList(_, _)
IsSubList(sub, seq) ==
    IF sub = << >> THEN TRUE
    ELSE IF seq = << >> THEN FALSE
    ELSE IF Head(sub) = Head(seq) THEN IsSubList(Tail(sub), Tail(seq))
    ELSE IsSubList(sub, Tail(seq))

\* The cards a player owns, over all card ids
TotalOwned(t, user_id) ==
    LET inventory == StoredInventory(t, user_id)
    IN  SumOver(DOMAIN inventory, inventory)

\* C24: of the cards a successful drop drew, each is either granted (its
\* owned count grows by one) or listed in outcome.duplicates, and not both:
\* every card id is drawn as often as it is granted and listed together;
\* outcome.duplicates is a sub-list of outcome.cards, in draw order; and the
\* total of the inventory counts grows by len(cards) - len(duplicates).
C24_OutcomeComposition ==
    [][\A u \in Users, p \in PackIds : \A rs \in RngStreams(p) :
          (last'.pack = p /\ last'.result = "ok" /\ DropFromPack(u, p, rs)) =>
              /\ \A c \in CardIds \cup DOMAIN StoredInventory(table', u) :
                    LET grown == Get(StoredInventory(table', u), c)
                                 - Get(StoredInventory(table, u), c)
                    IN  /\ grown >= 0
                        /\ Count(c, last'.cards) = grown + Count(c, last'.duplicates)
              /\ IsSubList(last'.duplicates, last'.cards)
              /\ TotalOwned(table', u) - TotalOwned(table, u)
                    = Len(last'.cards) - Len(last'.duplicates)
      ]_vars

\* A roll of two from the pack of alpha and beta for a player at alpha's
\* cap: beta granted, alpha a duplicate, both in outcome.cards.
C24_Witness ==
    /\ last.op = "drop_from_pack"
    /\ last.result = "ok"
    /\ last.pack = "duo"
    /\ last.cards = <<"beta", "alpha">>
    /\ last.duplicates = <<"alpha">>
    /\ Get(StoredInventory(table, last.user), "alpha") = Cap("alpha")
    /\ Get(StoredInventory(table, last.user), "beta") >= 1

\* ------------------------------------------------------------------------
\* Weights and the weighted index
\* ------------------------------------------------------------------------
InitDraw ==
    /\ InitServices(StandaloneConfigs)
    /\ TasksIdle /\ BusIdle /\ RegistriesIdle /\ ValidatorIdle /\ TransportIdle
    /\ draw \in DrawCalls

NextDraw ==
    \/ CardWeightCall
    \/ WeightedIndexCall

SpecDraw == InitDraw /\ [][NextDraw]_vars

\* The first positive value of levels, or otherwise
RECURSIVE FirstPositive(_, _)
FirstPositive(levels, otherwise) ==
    IF levels = << >> THEN otherwise
    ELSE IF Head(levels) > 0 THEN Head(levels)
    ELSE FirstPositive(Tail(levels), otherwise)

\* The four levels for a card, a level without a value counting as 0
WeightLevels(card_id, card_weights, rarity_weights) ==
    <<Get(card_weights, card_id),
      Cards[card_id].drop_weight,
      Get(rarity_weights, Cards[card_id].rarity),
      Get(GlobalRarityWeights, Cards[card_id].rarity)>>

\* C25: the weight the draw uses for a card in a pack is the first positive
\* value among the pack's weight for the card, the card's own drop weight,
\* the pack's weight for the card's rarity and the global weight for that
\* rarity, in this order, and 1.0 when none of them is positive; it is
\* always strictly positive.
C25_WeightResolution ==
    (draw.op = "card_weight" /\ draw.done) =>
        /\ draw.weight = FirstPositive(WeightLevels(draw.card, draw.card_weights,
                                                    draw.rarity_weights),
                                       WeightUnit)
        /\ draw.weight > 0

\* A card whose own weight is negative, in a pack that gives it the weight
\* 0 and its rarity a negative weight, under a negative global weight for
\* that rarity: 1.0.
C25_Witness ==
    /\ draw.op = "card_weight"
    /\ draw.done
    /\ draw.card = "drain"
    /\ Cards["drain"].drop_weight < 0
    /\ draw.card_weights = [c \in {"drain"} |-> 0]
    /\ draw.rarity_weights = [r \in {"legendary"} |-> -WeightUnit]
    /\ GlobalRarityWeights["legendary"] < 0
    /\ draw.weight = WeightUnit

\* The sum of the first n weights
RECURSIVE Cumulative(_, _)
Cumulative(weights, n) == IF n = 0 THEN 0 ELSE Cumulative(weights, n - 1) + weights[n]

\* C26: for a non-empty weight list of positive total and a draw
\* t = k / RngDen * total in [0, total), the index selected (from 0) is the
\* smallest i whose cumulative sum w[0] + ... + w[i] is >= t, and it lies in
\* 0 .. len - 1; with the weights 0.1 and 10.0 the second is selected for
\* every t > 0.1.  For a total <= 0 the index is int(random() * len), which
\* lies in 0 .. len - 1 as well.
C26_WeightedSelection ==
    (draw.op = "weighted_index" /\ draw.done) =>
        LET weights == draw.weights
            total == SumSeq(weights)
            i == draw.index
            \* cumulative sum up to index j (from 0) >= t, both scaled by RngDen
            reaches(j) == Cumulative(weights, j + 1) * RngDen >= draw.k * total
        IN  /\ i \in 0 .. (Len(weights) - 1)
            /\ total > 0 => /\ reaches(i)
                            /\ \A j \in 0 .. (i - 1) : ~reaches(j)
            /\ (weights = <<1, 10 * WeightUnit>> /\ draw.k * total > 1 * RngDen) => i = 1
            /\ total <= 0 => /\ i * RngDen <= draw.k * Len(weights)
                             /\ draw.k * Len(weights) < (i + 1) * RngDen

\* The weights 0.1 and 10.0 and a draw above 0.1: the second card.
C26_Witness ==
    /\ draw.op = "weighted_index"
    /\ draw.done
    /\ draw.weights = <<1, 10 * WeightUnit>>
    /\ draw.k > 0
    /\ draw.index = 1

\* ------------------------------------------------------------------------
\* The effects of a drop, await by await
\* ------------------------------------------------------------------------
\* One drop at a time, with no, one or two listeners subscribed to its
\* event, against the clock.
OrderConfigs == {c \in Configs : /\ c.base_cooldown_seconds = 0
                                  /\ c.allow_duplicates
                                  /\ c.max_cards_per_drop = 2
                                  /\ c.strategy.kind = "penalty" /\ c.strategy.num = 0}

\* The listeners subscribed to the event of a drop when the bot is set up
OrderListeners ==
    {EmptyMap} \cup {[n \in {"player.drop.completed"} |-> subs] :
                        subs \in {<<"first">>, <<"first", "second">>}}

\* What a listener of the event does when awaited
OrderBehaviours == [ListenerIds -> {"return", "raise"}]

InitOrder ==
    /\ InitServices(OrderConfigs)
    /\ TasksIdle /\ RegistriesIdle /\ ValidatorIdle /\ TransportIdle /\ DrawIdle
    /\ listeners \in OrderListeners
    /\ delivery = NoDelivery

OrderReadStep == \E u \in Users : \E rs \in RngStreams("duo") : DropRead(1, u, "duo", rs)

OrderSaveStep == DropSave(1)

OrderRecordStep == DropRecord(1)

OrderPublishStep == \E how \in OrderBehaviours : DropPublish(1, how)

NextOrder ==
    \/ OrderReadStep
    \/ OrderSaveStep
    \/ OrderRecordStep
    \/ OrderPublishStep
    \/ Tick

SpecOrder == InitOrder /\ [][NextOrder]_vars

\* The history record of the call in flight
RecordOf(call) ==
    [user_id |-> call.user, card_ids |-> call.cards, timestamp |-> call.at,
     rewards |-> call.reward.currencies]

\* C27: a drop that passed its checks first saves the record (the inventory,
\* wallet and experience it worked out, last_drop_at = its now), then appends
\* one history record with all drawn card ids and that timestamp, then
\* publishes one player.drop.completed event, and not before: nothing is
\* appended or published by the steps before, the record is stored when the
\* history record is appended and both are when the event is published; a
\* rejected drop publishes nothing; and when a listener raises, the call
\* fails with the record and the history record in place.
C27_OrderOfEffects ==
    [][LET call == inflight[1] IN
       /\ (\E u \in Users : \E rs \in RngStreams("duo") : DropRead(1, u, "duo", rs))
          => /\ history' = history /\ published' = published
             /\ inflight'[1].phase = "saving"
                => /\ inflight'[1].saved.last_drop_at = UtcTs(now)
                   /\ inflight'[1].at = UtcTs(now)
       /\ DropSave(1)
          => /\ table'[call.user] = call.saved
             /\ table'[call.user].last_drop_at = call.at
             /\ history' = history /\ published' = published
       /\ DropRecord(1)
          => /\ table[call.user] = call.saved
             /\ history' = Append(history, RecordOf(call))
             /\ history'[Len(history')].card_ids = call.cards
             /\ history'[Len(history')].timestamp = table[call.user].last_drop_at
             /\ table' = table /\ published' = published
       /\ \A how \in OrderBehaviours :
             (delivery'.name = "player.drop.completed" /\ DropPublish(1, how))
             => /\ table[call.user] = call.saved
                /\ history # << >> /\ history[Len(history)] = RecordOf(call)
                /\ published' = Append(published, [name |-> "player.drop.completed",
                                                    user_id |-> call.user])
                /\ table' = table /\ history' = history
                /\ (\E l \in Members(ListenersOf(listeners, "player.drop.completed")) :
                        how[l] = "raise")
                   <=> last'.result # "ok"
                /\ last'.result = "ok" => last'.cards = call.cards
       /\ Len(published') <= Len(history')
      ]_vars

\* A drop whose second listener raised: the call failed, the record and the
\* history record of alpha and beta are in place, the event was published,
\* and the clock has moved on since.
C27_Witness ==
    /\ last.op = "drop_from_pack"
    /\ last.result = "ListenerError"
    /\ delivery.result = "raised"
    /\ Len(delivery.invoked) = 2
    /\ Len(history) = 1
    /\ Len(history[1].card_ids) = 2
    /\ Len(published) = 1
    /\ 1 \in DOMAIN table
    /\ table[1].last_drop_at = history[1].timestamp
    /\ now > history[1].timestamp.wall
    /\ TotalOwned(table, 1) >= 1

\* ------------------------------------------------------------------------
\* Rejected drops
\* ------------------------------------------------------------------------
\* Drops of one card against the clock, with and without a cooldown, from
\* packs that run out of eligible cards, and the ban; both player stores.
RejectedConfigs == {c \in Configs : /\ c.max_cards_per_drop = 1
                                     /\ c.strategy.kind = "penalty" /\ c.strategy.num = 0}

InitRejected == InitWith(RejectedConfigs)

RejectedPacks == {"starters", "strict", "empty"}

RejectedDrop == DropOn(RejectedPacks)

NextRejected ==
    \/ RejectedDrop
    \/ BanUserStep
    \/ UnbanUserStep
    \/ Tick

SpecRejected == InitRejected /\ [][NextRejected]_vars

\* The failures raised before the roll (inventory.py:57, 61, 69)
Rejections == {"PlayerBanned", "CooldownActive", "NoCardsAvailable"}

\* What the store holds on user_id: a user nobody looked up has the record
\* get_or_create would make
StoredRecord(t, user_id) == IF user_id \in DOMAIN t THEN t[user_id] ELSE NewRecord

\* C28: a drop rejected with PlayerBanned, CooldownActive or
\* NoCardsAvailable leaves the player's stored inventory, wallet,
\* experience, last_drop_at (the cooldown is not restarted) and ban flag as
\* they were, appends no history record and publishes no event.
C28_RejectedDropHasNoEffect ==
    [][\A u \in Users, p \in RejectedPacks : \A rs \in RngStreams(p) :
          (last'.result \in Rejections /\ DropFromPack(u, p, rs))
          => /\ StoredRecord(table', u) = StoredRecord(table, u)
             /\ history' = history
             /\ published' = published]_vars

\* A drop was rejected by the cooldown, later than the drop that started it,
\* and the player still holds the card and the timestamp of that drop
C28_Witness ==
    /\ last.op = "drop_from_pack" /\ last.result = "CooldownActive"
    /\ last.user \in DOMAIN table
    /\ Get(table[last.user].inventory, "alpha") >= 1
    /\ table[last.user].last_drop_at # NoneTs
    /\ now > table[last.user].last_drop_at.wall
    /\ Len(history) = 1 /\ Len(published) = 1


\* ------------------------------------------------------------------------
\* Drops that fail after the roll
\* ------------------------------------------------------------------------
\* Drops from a pack whose card rewards a currency nobody registered, from a
\* pack whose card debits coins, and from the starters, with credits in
\* between; both player stores.
FailedRollConfigs == {c \in Configs : /\ c.base_cooldown_seconds = 0
                                       /\ c.max_cards_per_drop = 1
                                       /\ c.strategy.kind = "penalty" /\ c.strategy.num = 0}

InitFailedRoll == InitWith(FailedRollConfigs)

FailedRollPacks == {"odd", "cursed", "starters"}

FailedRollDrop == DropOn(FailedRollPacks)

NextFailedRoll ==
    \/ FailedRollDrop
    \/ CreditStep
    \/ FetchStep

SpecFailedRoll == InitFailedRoll /\ [][NextFailedRoll]_vars

\* The failures raised after the roll: ensure_codes (inventory.py:96) and
\* Wallet.merge (inventory.py:99)
RollFailures == {"KeyError", "ValueError"}

\* C29: with the in-memory player store, a drop that fails because the
\* accumulated reward names an unregistered currency, or because merging
\* the reward into the wallet fails, leaves the stored record as it was (no
\* card of the roll in the inventory, wallet and experience unchanged,
\* last_drop_at not set), appends no history record and publishes no event.
C29_FailedRollLeavesRecord ==
    [][\A u \in Users, p \in FailedRollPacks : \A rs \in RngStreams(p) :
          (cfg.store = "memory" /\ last'.result \in RollFailures /\ DropFromPack(u, p, rs))
          => /\ StoredRecord(table', u) = StoredRecord(table, u)
             /\ history' = history
             /\ published' = published]_vars


\* ------------------------------------------------------------------------
\* Two players in one store
\* ------------------------------------------------------------------------
Residents == {1, 2}

\* A record after add_card(u, "beta", 1), credit(u, "coins", 1) and
\* grant_experience(u, 1)
RichRecord ==
    [NewRecord EXCEPT !.inventory = Put(EmptyMap, "beta", 1),
                      !.wallet = Put(EmptyMap, "coins", 1),
                      !.experience = 1]

\* The stores the player service leaves behind: each resident unknown, just
\* looked up, or holding a card, a coin and experience
IsolationStores == UNION {[known -> {NewRecord, RichRecord}] : known \in SUBSET Residents}

IsolationConfigs == {c \in Configs : /\ c.base_cooldown_seconds = 0
                                      /\ c.allow_duplicates
                                      /\ c.max_cards_per_drop = 1
                                      /\ c.strategy.kind = "penalty" /\ c.strategy.num = 0}

InitIsolation ==
    /\ cfg \in IsolationConfigs
    /\ now = 0
    /\ table \in IsolationStores
    /\ history = << >>
    /\ audit = << >>
    /\ published = << >>
    /\ last = NoCall
    /\ BesideIdle

\* Bans and drops may precede the call under observation; any other call
\* ends the run.
Unsettled == last.op \in {"none", "ban_user", "drop_from_pack"}

IsolationDropStep ==
    Unsettled /\ \E u \in Residents : \E rs \in RngStreams("starters") :
                    DropFromPack(u, "starters", rs)

IsolationFetchStep == Unsettled /\ \E u \in Residents : Fetch(u)

IsolationCreditStep ==
    Unsettled /\ \E u \in Residents, c \in CurrencyCodes, a \in Amounts : Credit(u, c, a)

IsolationSpendStep ==
    Unsettled /\ \E u \in Residents, c \in CurrencyCodes, a \in Amounts : Spend(u, c, a)

IsolationAddCardStep ==
    Unsettled /\ \E u \in Residents, c \in GrantableIds, q \in Quantities : AddCard(u, c, q)

IsolationGrantExperienceStep ==
    Unsettled /\ \E u \in Residents, a \in XpAmounts : GrantExperience(u, a)

IsolationClearCooldownStep == Unsettled /\ \E u \in Residents : ClearCooldown(u)

IsolationBanUserStep == Unsettled /\ \E u \in Residents : BanUser(u)

IsolationUnbanUserStep == Unsettled /\ \E u \in Residents : UnbanUser(u)

IsolationGrantCurrencyStep ==
    Unsettled /\ \E u \in Residents, c \in GrantCodes, a \in GrantAmounts :
                    GrantCurrency(u, c, a)

IsolationGrantCardStep ==
    Unsettled /\ \E u \in Residents, c \in GrantableIds, q \in Quantities : GrantCard(u, c, q)

IsolationAdjustExperienceStep ==
    Unsettled /\ \E u \in Residents, d \in XpAmounts : AdjustExperience(u, d)

NextIsolation ==
    \/ IsolationDropStep
    \/ IsolationFetchStep
    \/ IsolationCreditStep
    \/ IsolationSpendStep
    \/ IsolationAddCardStep
    \/ IsolationGrantExperienceStep
    \/ IsolationClearCooldownStep
    \/ IsolationBanUserStep
    \/ IsolationUnbanUserStep
    \/ IsolationGrantCurrencyStep
    \/ IsolationGrantCardStep
    \/ IsolationAdjustExperienceStep

SpecIsolation == InitIsolation /\ [][NextIsolation]_vars

\* The fields of PlayerRecord an operation assigns
Written(op) ==
    CASE op = "drop_from_pack" -> {"inventory", "wallet", "experience", "last_drop_at"}
      [] op \in {"credit", "spend", "grant_currency"} -> {"wallet"}
      [] op \in {"add_card", "grant_card"} -> {"inventory"}
      [] op \in {"grant_experience", "adjust_experience"} -> {"experience"}
      [] op = "clear_cooldown" -> {"last_drop_at"}
      [] op \in {"ban_user", "unban_user"} -> {"is_banned"}
      [] OTHER -> {}

\* C30: an operation addressed to user u leaves the stored record of every
\* other user as it was (known users stay known and unchanged, unknown ones
\* stay unknown), also when it creates u's record; a record created by the
\* operation starts empty: inventory and wallet empty, experience 0, no
\* last_drop_at, not banned, but for the fields the operation itself
\* assigns; and no operation removes a record.
C30_PerUserIsolation ==
    [][\A u \in Residents :
          last'.user = u
          => /\ \A v \in Residents \ {u} :
                   /\ v \in DOMAIN table <=> v \in DOMAIN table'
                   /\ v \in DOMAIN table => table'[v] = table[v]
             /\ DOMAIN table \subseteq DOMAIN table'
             /\ (u \notin DOMAIN table /\ u \in DOMAIN table')
                => /\ \A f \in DOMAIN NewRecord \ Written(last'.op) :
                         table'[u][f] = NewRecord[f]
                   /\ last'.op = "fetch" => table'[u] = NewRecord]_vars

\* A first drop for user 2, whose record it created, beside a banned user 1
\* who holds a card, a coin and experience
C30_Witness ==
    /\ last.op = "drop_from_pack" /\ last.result = "ok" /\ last.user = 2
    /\ Len(history) = 1 /\ history[1].user_id = 2
    /\ DOMAIN table = Residents
    /\ table[1] = [RichRecord EXCEPT !.is_banned = TRUE]
    /\ table[2].inventory = Put(EmptyMap, "alpha", 1)
    /\ table[2].last_drop_at = UtcTs(now)
    /\ ~table[2].is_banned

====
